---- MODULE Spec2Model ----
(***************************************************************************)
(* Map_researcher: listing de-duplication, grouping, storage and risk      *)
(* scoring, modelled from the Python sources.                              *)
(*                                                                         *)
(* Conventions                                                             *)
(*  - A Python list of dicts is a sequence of records; an element of a     *)
(*    result list is the index of the input dict it refers to (Python      *)
(*    lists hold references, so identity is the position in the input).    *)
(*  - A string is a sequence of one-character strings; an absent or empty  *)
(*    string is << >>.                                                     *)
(*  - An optional number is << >> (None) or << x >>.                       *)
(*  - A latitude is an integer: the arc length in metres from the equator  *)
(*    along the meridian LngE.  For two points on one meridian the         *)
(*    haversine formula reduces to R * |dlat|, so the distance in metres   *)
(*    is the absolute difference.  Latitude 0 (the equator) is a valid     *)
(*    coordinate that Python's truth test treats as false.                 *)
(*  - Similarity scores are exact rationals << numerator, denominator >>.  *)
(***************************************************************************)
EXTENDS Integers, Sequences, FiniteSets, TLC

VARIABLES
    results,      \* DataDiscovery: listings gathered from the sources
    unique,       \* DataDiscovery._remove_duplicates: kept listings
    deduped,      \* whether _remove_duplicates has run on results
    all_results,  \* BookingPlatformsDiscovery: properties found on the platforms
    unique_results, \* BookingPlatformsDiscovery._remove_duplicates: its result
    booking_done, \* whether discover_hotels has de-duplicated all_results
    properties,   \* PatternDiscovery.find_property_groups: its argument
    property_groups, \* find_property_groups: its result, None before the call
    search_results, \* HotelScraper.search_hotels_by_location: results
    enriched,     \* _compare_and_enrich_results: its groups and the fields it
                  \* sets on the results, None before the call
    db_type,      \* Database.db_type
    hotels,       \* Database: the rows of the hotels table (or file), in order
    clusters,     \* ViolationDetection.detect_unusual_clusters: its result,
                  \* None before the call
    pc,           \* save_hotel: where each worker is in its call
    job,          \* save_hotel: the hotel_data of each worker's call in progress
    df,           \* save_hotel on excel: each worker's DataFrame
    returned,     \* save_hotel: the id each worker's last call returned
    settings,     \* SettingsModule.settings["violations"]
    hotel_history, \* the database's history events, in the order recorded
    hotel_listings, \* the database's platform listings
    query_criteria, \* the criteria given to the last query, None for none
    violations,   \* analyze_potential_violations: its result, None before
    high_risk_hotels, \* list_high_risk_hotels: its result, None before
    history_analysis, \* analyze_hotel_history: its result, None before
    history_read, \* analyze_hotel_history: the list get_hotel_history handed
                  \* it, as it was given and as the analysis left it
    location_analysis, \* analyze_location_changes: its result, None before
    deleted,      \* Database: the ids of the rows delete_hotel has removed
    cluster_criteria, \* the criteria of the last detect_unusual_clusters
    geo_clusters, \* PatternDiscovery.detect_geographic_clusters: its result
    density_clusters \* GoogleMapsAnalyzer.cluster_locations_by_density: result

VARIABLES
    lookup,       \* Database.get_hotel_by_id: the id asked for and the result
    search_history,       \* SearchModule.search_history
    last_search_results,  \* SearchModule.last_search_results
    searches,     \* the calls of the search operations so far, with what
                  \* each gave back to its caller
    discovery,    \* DataDiscovery.smart_discovery: the locals of the call in
                  \* progress, None before the call
    all_settings, \* SettingsModule.settings, every section
    similarities  \* the calls of _calculate_string_similarity, each with the
                  \* class it was called on, its arguments and its result

dedupVars == <<results, unique, deduped>>

bookingVars == <<all_results, unique_results, booking_done>>

patternVars == <<properties, property_groups>>

scraperVars == <<search_results, enriched>>

dbVars == <<db_type, hotels>>

storeVars == <<pc, job, df, returned>>

riskVars == <<settings, hotel_history, hotel_listings, query_criteria, violations,
              high_risk_hotels, history_analysis>>

auditVars == <<history_read, location_analysis, deleted, cluster_criteria,
               geo_clusters, density_clusters>>

searchVars == <<search_history, last_search_results, searches>>

lateVars == <<discovery, all_settings>>

serviceVars == <<lookup, similarities, search_history, last_search_results, searches,
                 discovery, all_settings>>

vars == <<results, unique, deduped, all_results, unique_results, booking_done,
          properties, property_groups, search_results, enriched,
          db_type, hotels, clusters, pc, job, df, returned,
          settings, hotel_history, hotel_listings, query_criteria, violations,
          high_risk_hotels, history_analysis,
          history_read, location_analysis, deleted, cluster_criteria,
          geo_clusters, density_clusters,
          lookup, similarities, search_history, last_search_results, searches,
          discovery, all_settings>>

(***************************************************************************)
(* Values                                                                  *)
(***************************************************************************)
\* An optional number is a sequence: << >> is None, << x >> is the number x
NoVal == << >>

Num(x) == << x >>

Val(v) == v[1]

\* Python truth test of an optional number: None and 0 are false
Truthy(v) == v # NoVal /\ v # Num(0)

Abs(x) == IF x < 0 THEN -x ELSE x

Max(a, b) == IF a >= b THEN a ELSE b

Min(a, b) == IF a <= b THEN a ELSE b

\* str.lower() on one character of the model's alphabet
LowerChar(c) ==
    CASE c = "A" -> "a"
      [] c = "B" -> "b"
      [] c = "H" -> "h"
      [] OTHER -> c

\* str.lower()
Lower(s) == [i \in 1..Len(s) |-> LowerChar(s[i])]

\* the meridians (degrees east) the located listings of the model lie on
Meridians == { 46 }

\* great-circle distance in metres: R * |dlat| on one meridian; two points
\* of the model on different meridians are thousands of kilometres apart
HaversineMeters(lat1, lon1, lat2, lon2) ==
    IF lon1 = lon2 THEN Abs(Val(lat1) - Val(lat2)) ELSE 4000000

(***************************************************************************)
(* Exact rationals << n, d >> with d > 0                                   *)
(***************************************************************************)
RECURSIVE GCD(_, _)
GCD(a, b) == IF b = 0 THEN a ELSE GCD(b, a % b)

Norm(r) ==
    LET g == GCD(Abs(r[1]), r[2])
    IN  IF g = 0 THEN r ELSE << r[1] \div g, r[2] \div g >>

Rat(n, d) == Norm(<< n, d >>)

RAdd(a, b) == Norm(<< a[1] * b[2] + b[1] * a[2], a[2] * b[2] >>)

RMul(a, b) == Norm(<< a[1] * b[1], a[2] * b[2] >>)

RDiv(a, b) == Norm(<< a[1] * b[2], a[2] * b[1] >>)

RGeq(a, b) == a[1] * b[2] >= b[1] * a[2]

RGt(a, b) == a[1] * b[2] > b[1] * a[2]

(***************************************************************************)
(* Levenshtein distance, by the row-by-row dynamic programme of the code   *)
(***************************************************************************)
Min3(a, b, c) == Min(a, Min(b, c))

\* row i of dist, filled left to right; prev is row i-1, row the part so far
RECURSIVE LevFill(_, _, _, _, _)
LevFill(s1, s2, i, prev, row) ==
    IF Len(row) = Len(s2) + 1 THEN row
    ELSE
      LET j    == Len(row)
          cost == IF s1[i] = s2[j] THEN 0 ELSE 1
      IN  LevFill(s1, s2, i, prev,
                  Append(row, Min3(prev[j + 1] + 1, row[j] + 1, prev[j] + cost)))

RECURSIVE LevRows(_, _, _, _)
LevRows(s1, s2, i, prev) ==
    IF i > Len(s1) THEN prev[Len(s2) + 1]
    ELSE LevRows(s1, s2, i + 1, LevFill(s1, s2, i, prev, << i >>))

\* dist[rows-1][cols-1]
Levenshtein(s1, s2) == LevRows(s1, s2, 1, [j \in 1..(Len(s2) + 1) |-> j - 1])

(***************************************************************************)
(* DataDiscovery._remove_duplicates                                        *)
(***************************************************************************)
MaxListings == 3

DedupNames == { << >>, <<"a">>, <<"A">>, <<"b">> }

DedupLats == { 0, 30, 60, 120 }

Hotel(n, lat, lng) == [name |-> n, latitude |-> lat, longitude |-> lng]

DedupListings ==
    { Hotel(n, NoVal, NoVal) : n \in DedupNames }
      \cup { Hotel(n, Num(lat), Num(lng)) :
                 n \in DedupNames, lat \in DedupLats, lng \in Meridians }

\* one pass of the loop body, from position i with the state of the locals
RECURSIVE RemoveDuplicatesFrom(_, _, _, _, _)
RemoveDuplicatesFrom(hotel_list, i, unique_hotel_list, seen_names, seen_coords) ==
    IF i > Len(hotel_list) THEN unique_hotel_list
    ELSE
      LET hotel == hotel_list[i]
          name  == Lower(hotel.name)
          lat   == hotel.latitude
          lng   == hotel.longitude
      IN  IF name = << >> \/ ~Truthy(lat) \/ ~Truthy(lng)
          THEN RemoveDuplicatesFrom(hotel_list, i + 1, Append(unique_hotel_list, i),
                                    seen_names, seen_coords)
          ELSE IF name \in seen_names
          THEN RemoveDuplicatesFrom(hotel_list, i + 1, unique_hotel_list,
                                    seen_names, seen_coords)
          ELSE IF \E c \in seen_coords :
                     HaversineMeters(lat, lng, c[1], c[2]) < 50
          THEN RemoveDuplicatesFrom(hotel_list, i + 1, unique_hotel_list,
                                    seen_names, seen_coords)
          ELSE RemoveDuplicatesFrom(hotel_list, i + 1, Append(unique_hotel_list, i),
                                    seen_names \cup {name},
                                    seen_coords \cup {<<lat, lng>>})

\* indices (into the list) of the listings _remove_duplicates returns, in order
RemoveDuplicatesOf(hotel_list) == RemoveDuplicatesFrom(hotel_list, 1, << >>, {}, {})

DedupIdle == results = << >> /\ unique = << >> /\ deduped = FALSE

\* a source returns one more listing (results.extend)
Discover(h) ==
    /\ ~deduped
    /\ Len(results) < MaxListings
    /\ results' = Append(results, h)
    /\ UNCHANGED <<unique, deduped>>
    /\ UNCHANGED <<bookingVars, patternVars, scraperVars, dbVars, clusters, storeVars, riskVars, auditVars, serviceVars>>

\* results = self._remove_duplicates(results)
RemoveDuplicates ==
    /\ ~deduped
    /\ unique' = RemoveDuplicatesOf(results)
    /\ deduped' = TRUE
    /\ UNCHANGED results
    /\ UNCHANGED <<bookingVars, patternVars, scraperVars, dbVars, clusters, storeVars, riskVars, auditVars, serviceVars>>

\* the listings the returned list still records
TrackedListings(kept) == { kept[k] : k \in 1..Len(kept) }

(***************************************************************************)
(* BookingPlatformsDiscovery._remove_duplicates                            *)
(***************************************************************************)
BookingNames == { << >>, <<"a">>, <<"A">>, <<"b">> }

BookingUrls == { "", "u1", "u2" }

Platforms == { "booking", "airbnb" }

Property(n, u, pf) == [name |-> n, url |-> u, platform |-> pf]

BookingListings ==
    { Property(n, u, pf) : n \in BookingNames, u \in BookingUrls, pf \in Platforms }

\* BookingPlatformsDiscovery._calculate_string_similarity
BookingStringSimilarity(str1, str2) ==
    IF str1 = << >> \/ str2 = << >> THEN Rat(0, 1)
    ELSE
      LET s1      == Lower(str1)
          s2      == Lower(str2)
          max_len == Max(Len(s1), Len(s2))
      IN  IF max_len > 0
          THEN Rat(max_len - Levenshtein(s1, s2), max_len)
          ELSE Rat(0, 1)

\* position in seen_names (insertion order) of the first name similar to n,
\* 0 when there is none
RECURSIVE FirstSimilar(_, _, _)
FirstSimilar(seen_names, n, k) ==
    IF k > Len(seen_names) THEN 0
    ELSE IF RGt(BookingStringSimilarity(n, seen_names[k].name), Rat(8, 10))
    THEN k
    ELSE FirstSimilar(seen_names, n, k + 1)

\* unique_properties is a sequence of [prop: index of the kept property,
\* other_platforms: indices of the properties recorded under it];
\* seen_names a sequence of [name, index into unique_properties]
RECURSIVE BookingRemoveDuplicatesFrom(_, _, _, _, _)
BookingRemoveDuplicatesFrom(props, i, unique_properties, seen_urls, seen_names) ==
    IF i > Len(props) THEN unique_properties
    ELSE
      LET prop == props[i]
          keep == Append(unique_properties, [prop |-> i, other_platforms |-> << >>])
      IN  IF prop.url # "" /\ prop.url \notin seen_urls
          THEN BookingRemoveDuplicatesFrom(props, i + 1, keep,
                                           seen_urls \cup {prop.url}, seen_names)
          ELSE IF prop.name # << >>
          THEN
            LET k == FirstSimilar(seen_names, prop.name, 1)
            IN  IF k = 0
                THEN BookingRemoveDuplicatesFrom(props, i + 1, keep, seen_urls,
                         Append(seen_names,
                                [name |-> prop.name,
                                 index |-> Len(unique_properties) + 1]))
                ELSE
                  LET seen_index == seen_names[k].index
                      entry      == unique_properties[seen_index]
                  IN  IF props[entry.prop].platform # prop.platform
                      THEN BookingRemoveDuplicatesFrom(props, i + 1,
                               [unique_properties EXCEPT
                                  ![seen_index].other_platforms = Append(@, i)],
                               seen_urls, seen_names)
                      ELSE BookingRemoveDuplicatesFrom(props, i + 1,
                               unique_properties, seen_urls, seen_names)
          ELSE BookingRemoveDuplicatesFrom(props, i + 1, unique_properties,
                                           seen_urls, seen_names)

BookingRemoveDuplicatesOf(props) ==
    BookingRemoveDuplicatesFrom(props, 1, << >>, {}, << >>)

\* the listings the returned list still records: each kept property and the
\* entries of its other_platforms
BookingTracked(kept) ==
    { kept[k].prop : k \in 1..Len(kept) }
      \cup UNION { { kept[k].other_platforms[m] :
                       m \in 1..Len(kept[k].other_platforms) } :
                   k \in 1..Len(kept) }

BookingIdle == all_results = << >> /\ unique_results = << >> /\ booking_done = FALSE

\* a platform search returns one more property (all_results.extend)
SearchPlatform(p) ==
    /\ ~booking_done
    /\ Len(all_results) < MaxListings
    /\ all_results' = Append(all_results, p)
    /\ UNCHANGED <<unique_results, booking_done>>
    /\ UNCHANGED <<dedupVars, patternVars, scraperVars, dbVars, clusters, storeVars, riskVars, auditVars, serviceVars>>

\* unique_results = self._remove_duplicates(all_results)
BookingRemoveDuplicates ==
    /\ ~booking_done
    /\ unique_results' = BookingRemoveDuplicatesOf(all_results)
    /\ booking_done' = TRUE
    /\ UNCHANGED all_results
    /\ UNCHANGED <<dedupVars, patternVars, scraperVars, dbVars, clusters, storeVars, riskVars, auditVars, serviceVars>>

(***************************************************************************)
(* PatternDiscovery.find_property_groups                                   *)
(***************************************************************************)
\* str.strip() for the blank of the model's alphabet
RECURSIVE Strip(_)
Strip(s) ==
    IF s = << >> THEN s
    ELSE IF Head(s) = " " THEN Strip(Tail(s))
    ELSE IF s[Len(s)] = " " THEN Strip(SubSeq(s, 1, Len(s) - 1))
    ELSE s

\* Python's `a in b` for strings
IsSubstring(a, b) ==
    \E k \in 0..(Len(b) - Len(a)) : SubSeq(b, k + 1, k + Len(a)) = a

\* a similarity whose substring path divides the first length by the second
StringSimilarityOrdered(str1, str2) ==
    IF str1 = << >> \/ str2 = << >> THEN Rat(0, 1)
    ELSE
      LET s1 == Strip(Lower(str1))
          s2 == Strip(Lower(str2))
      IN  IF s1 = s2 THEN Rat(1, 1)
          ELSE IF IsSubstring(s1, s2) \/ IsSubstring(s2, s1)
          THEN Rat(Len(s1), Len(s2) + 1)
          ELSE LET max_len == Max(Len(s1), Len(s2))
               IN  Rat(max_len - Levenshtein(s1, s2), max_len)

\* PatternDiscovery._calculate_string_similarity
StringSimilarity(str1, str2) ==
    IF str1 = << >> \/ str2 = << >> THEN Rat(0, 1)
    ELSE
      LET s1 == Strip(Lower(str1))
          s2 == Strip(Lower(str2))
      IN  IF s1 = s2 THEN Rat(1, 1)
          ELSE IF IsSubstring(s1, s2) \/ IsSubstring(s2, s1)
          THEN LET shorter == IF Len(s1) < Len(s2) THEN s1 ELSE s2
                   longer  == IF Len(s1) < Len(s2) THEN s2 ELSE s1
               IN  Rat(Len(shorter), Len(longer))
          ELSE LET max_len == Max(Len(s1), Len(s2))
               IN  Rat(max_len - Levenshtein(s1, s2), max_len)

\* re.sub(r'\D', '', phone): the digits of a phone number
IsDigit(c) == c \in { "0", "1", "2", "3", "4", "5", "6", "7", "8", "9" }

Digits(p) == SelectSeq(p, IsDigit)

LastN(s, n) == SubSeq(s, Len(s) - n + 1, Len(s))

\* PatternDiscovery._calculate_phone_similarity
PhoneSimilarity(phone1, phone2) ==
    LET p1 == Digits(phone1)
        p2 == Digits(phone2)
    IN  IF p1 = << >> \/ p2 = << >> THEN Rat(0, 1)
        ELSE IF p1 = p2 THEN Rat(1, 1)
        ELSE IF Min(Len(p1), Len(p2)) >= 6 /\ LastN(p1, 6) = LastN(p2, 6)
        THEN Rat(9, 10)
        ELSE IF Min(Len(p1), Len(p2)) >= 6 /\ LastN(p1, 4) = LastN(p2, 4)
        THEN Rat(7, 10)
        ELSE Rat(0, 1)

\* geo_similarity = max(0, 1 - dist/2), dist in kilometres
GeoSimilarity(prop1, prop2) ==
    LET m == HaversineMeters(prop1.latitude, prop1.longitude,
                             prop2.latitude, prop2.longitude)
    IN  IF m >= 2000 THEN Rat(0, 1) ELSE Rat(2000 - m, 2000)

\* the (score, weight) pairs of _calculate_property_similarity, in order
SimilarityScores(prop1, prop2) ==
    (IF prop1.name # << >> /\ prop2.name # << >>
       THEN << << StringSimilarity(prop1.name, prop2.name), Rat(4, 10) >> >>
       ELSE << >>)
    \o (IF prop1.address # << >> /\ prop2.address # << >>
          THEN << << StringSimilarity(prop1.address, prop2.address), Rat(3, 10) >> >>
          ELSE << >>)
    \o (IF Truthy(prop1.latitude) /\ Truthy(prop1.longitude)
             /\ Truthy(prop2.latitude) /\ Truthy(prop2.longitude)
          THEN << << GeoSimilarity(prop1, prop2), Rat(3, 10) >> >>
          ELSE << >>)
    \o (IF prop1.phone # << >> /\ prop2.phone # << >>
             /\ RGt(PhoneSimilarity(prop1.phone, prop2.phone), Rat(0, 1))
          THEN << << PhoneSimilarity(prop1.phone, prop2.phone), Rat(4, 10) >> >>
          ELSE << >>)
    \o (IF prop1.owner # << >> /\ prop2.owner # << >>
          THEN << << StringSimilarity(prop1.owner, prop2.owner), Rat(4, 10) >> >>
          ELSE << >>)

RECURSIVE WeightedSum(_, _)
WeightedSum(scores, k) ==
    IF k > Len(scores) THEN Rat(0, 1)
    ELSE RAdd(RMul(scores[k][1], scores[k][2]), WeightedSum(scores, k + 1))

RECURSIVE TotalWeight(_, _)
TotalWeight(scores, k) ==
    IF k > Len(scores) THEN Rat(0, 1)
    ELSE RAdd(scores[k][2], TotalWeight(scores, k + 1))

\* PatternDiscovery._calculate_property_similarity
PropertySimilarity(prop1, prop2) ==
    LET similarity_scores == SimilarityScores(prop1, prop2)
    IN  IF similarity_scores # << >>
        THEN RDiv(WeightedSum(similarity_scores, 1), TotalWeight(similarity_scores, 1))
        ELSE Rat(0, 1)

\* the edges G.add_edge(i, j) of the similarity graph
SimilarityEdges(props, threshold) ==
    { e \in (1..Len(props)) \X (1..Len(props)) :
        /\ e[1] < e[2]
        /\ RGeq(PropertySimilarity(props[e[1]], props[e[2]]), threshold) }

\* a grouping that takes only the direct neighbours of S (first-match)
ReachableDirect(S, edges) ==
    S \cup { e[2] : e \in { f \in edges : f[1] \in S } }
      \cup { e[1] : e \in { f \in edges : f[2] \in S } }

\* nx.connected_components: the nodes reachable from the set S
RECURSIVE Reachable(_, _)
Reachable(S, edges) ==
    LET T == S \cup { e[2] : e \in { f \in edges : f[1] \in S } }
                \cup { e[1] : e \in { f \in edges : f[2] \in S } }
    IN  IF T = S THEN S ELSE Reachable(T, edges)

\* the components in the order networkx yields them: by first node
RECURSIVE ConnectedComponents(_, _, _, _)
ConnectedComponents(n, edges, i, seen) ==
    IF i > n THEN << >>
    ELSE IF i \in seen THEN ConnectedComponents(n, edges, i + 1, seen)
    ELSE LET c == Reachable({i}, edges)
         IN  << c >> \o ConnectedComponents(n, edges, i + 1, seen \cup c)

\* the groups with at least 2 properties, each with its group_id
RECURSIVE GroupsOf(_, _)
GroupsOf(components, i) ==
    IF i > Len(components) THEN << >>
    ELSE (IF Cardinality(components[i]) >= 2
            THEN << [group_id |-> i - 1,
                     properties |-> components[i],
                     property_count |-> Cardinality(components[i])] >>
            ELSE << >>)
         \o GroupsOf(components, i + 1)

\* list.sort(key=property_count, reverse=True): stable insertion
RECURSIVE InsertBySize(_, _)
InsertBySize(sorted, g) ==
    IF sorted = << >> THEN << g >>
    ELSE IF Head(sorted).property_count >= g.property_count
    THEN << Head(sorted) >> \o InsertBySize(Tail(sorted), g)
    ELSE << g >> \o sorted

RECURSIVE SortBySize(_, _)
SortBySize(groups, k) ==
    IF k = 0 THEN << >>
    ELSE InsertBySize(SortBySize(groups, k - 1), groups[k])

SetSum(f, S) ==
    LET RECURSIVE Sum(_)
        Sum(T) == IF T = {} THEN 0
                  ELSE LET x == CHOOSE y \in T : TRUE IN f[x] + Sum(T \ {x})
    IN  Sum(S)

\* PatternDiscovery.find_property_groups
FindPropertyGroupsOf(props, threshold) ==
    LET edges  == SimilarityEdges(props, threshold)
        comps  == ConnectedComponents(Len(props), edges, 1, {})
        found  == GroupsOf(comps, 1)
        groups == SortBySize(found, Len(found))
    IN  [status |-> "success",
         group_count |-> Len(groups),
         groups |-> groups,
         ungrouped_count |->
             Len(props) - SetSum([k \in 1..Len(groups) |-> groups[k].property_count],
                                 1..Len(groups)),
         total_properties |-> Len(props)]

PatternNames == { <<"a", "b">>, <<"A", "c">> }

PatternAddresses == { <<"x">>, <<"y">> }

PatternLats == { 30, 60 }

Prop(n, a, lat, lng) ==
    [name |-> n, address |-> a, latitude |-> lat, longitude |-> lng,
     phone |-> << >>, owner |-> << >>]

\* properties with every attribute, properties without coordinates, one
\* without an address and one without a name
PatternListings ==
    { Prop(n, a, NoVal, NoVal) : n \in PatternNames, a \in PatternAddresses }
      \cup { Prop(n, a, Num(lat), Num(lng)) :
                 n \in PatternNames, a \in PatternAddresses,
                 lat \in PatternLats, lng \in Meridians }
      \cup { Prop(<<"a", "b">>, << >>, Num(30), Num(lng)) : lng \in Meridians }
      \cup { Prop(<< >>, <<"x">>, Num(60), Num(lng)) : lng \in Meridians }

\* the default similarity_threshold of find_property_groups
SimilarityThreshold == Rat(7, 10)

PatternIdle == properties = << >> /\ property_groups = NoVal

ScraperIdle == search_results = << >> /\ enriched = NoVal

DbIdle == db_type = "sqlite" /\ hotels = << >>

ClusterIdle == clusters = NoVal

\* the caller gathers one more property for the analysis
AddProperty(p) ==
    /\ ScraperIdle /\ DbIdle /\ ClusterIdle
    /\ property_groups = NoVal
    /\ Len(properties) < MaxListings
    /\ properties' = Append(properties, p)
    /\ UNCHANGED property_groups
    /\ UNCHANGED <<dedupVars, bookingVars, scraperVars, dbVars, clusters, storeVars, riskVars, auditVars, serviceVars>>

FindPropertyGroups ==
    /\ ScraperIdle /\ DbIdle /\ ClusterIdle
    /\ property_groups = NoVal
    /\ property_groups' = FindPropertyGroupsOf(properties, SimilarityThreshold)
    /\ UNCHANGED properties
    /\ UNCHANGED <<dedupVars, bookingVars, scraperVars, dbVars, clusters, storeVars, riskVars, auditVars, serviceVars>>

(***************************************************************************)
(* HotelScraper._compare_and_enrich_results                                *)
(***************************************************************************)
\* an optional value: << >> is unset, << x >> is the value x
Some(x) == << x >>

HasCoords(h) == Truthy(h.latitude) /\ Truthy(h.longitude)

\* the indices of S in ascending order (the order of enumerate)
RECURSIVE Ascending(_)
Ascending(S) ==
    IF S = {} THEN << >>
    ELSE LET m == CHOOSE x \in S : \A y \in S : x <= y
         IN  << m >> \o Ascending(S \ {m})

\* an inner loop that does not skip the results already in a group
GroupMembersNoMark(res, i, processed) ==
    { j \in 1..Len(res) :
        /\ j # i
        /\ HasCoords(res[j])
        /\ HaversineMeters(res[i].latitude, res[i].longitude,
                           res[j].latitude, res[j].longitude) < 50 }

\* the results the inner loop adds to the group of hotel_a = res[i]
GroupMembers(res, i, processed) ==
    { j \in 1..Len(res) :
        /\ j \notin processed
        /\ j # i
        /\ HasCoords(res[j])
        /\ HaversineMeters(res[i].latitude, res[i].longitude,
                           res[j].latitude, res[j].longitude) < 50 }

\* the first loop: groups, and the match fields set on the members
RECURSIVE EnrichGroupsFrom(_, _, _, _, _)
EnrichGroupsFrom(res, i, groups, processed, fields) ==
    IF i > Len(res) THEN [groups |-> groups, fields |-> fields]
    ELSE IF i \in processed \/ ~HasCoords(res[i])
    THEN EnrichGroupsFrom(res, i + 1, groups, processed, fields)
    ELSE
      LET members == GroupMembers(res, i, processed \cup {i})
          marked  == [j \in 1..Len(res) |->
                        IF j \in members
                        THEN [google_maps_match |-> Some(res[i].name),
                              coordinate_distance |->
                                  Some(HaversineMeters(res[i].latitude, res[i].longitude,
                                                       res[j].latitude, res[j].longitude))]
                        ELSE fields[j]]
      IN  EnrichGroupsFrom(res, i + 1,
                           Append(groups, << i >> \o Ascending(members)),
                           processed \cup {i} \cup members, marked)

\* next(h for h in hotels if data_source == 'Google Places'), 0 when none
RECURSIVE FirstGoogle(_, _, _)
FirstGoogle(res, group, k) ==
    IF k > Len(group) THEN 0
    ELSE IF res[group[k]].data_source = "Google Places" THEN group[k]
    ELSE FirstGoogle(res, group, k + 1)

\* the second loop: the other members of a group with a Google Places hotel
RECURSIVE EnrichWithGoogle(_, _, _, _)
EnrichWithGoogle(res, groups, g, fields) ==
    IF g > Len(groups) THEN fields
    ELSE
      LET google == IF Len(groups[g]) > 1 THEN FirstGoogle(res, groups[g], 1) ELSE 0
          members == { groups[g][k] : k \in 1..Len(groups[g]) }
      IN  IF google = 0 THEN EnrichWithGoogle(res, groups, g + 1, fields)
          ELSE EnrichWithGoogle(res, groups, g + 1,
                 [j \in 1..Len(res) |->
                    IF j \in members /\ res[j].data_source # "Google Places"
                    THEN [google_maps_match |-> Some(res[google].name),
                          coordinate_distance |->
                              Some(HaversineMeters(res[j].latitude, res[j].longitude,
                                                   res[google].latitude,
                                                   res[google].longitude))]
                    ELSE fields[j]])

\* HotelScraper._compare_and_enrich_results
CompareAndEnrichOf(res) ==
    LET first == EnrichGroupsFrom(res, 1, << >>, {},
                     [j \in 1..Len(res) |->
                        [google_maps_match |-> NoVal, coordinate_distance |-> NoVal]])
    IN  [groups |-> first.groups,
         fields |-> EnrichWithGoogle(res, first.groups, 1, first.fields)]

ScraperNames == { <<"a">>, <<"b">> }

ScraperLats == { 30, 60, 90 }

DataSources == { "Google Places", "OpenStreetMap" }

Found(n, lat, lng, src) ==
    [name |-> n, latitude |-> lat, longitude |-> lng, data_source |-> src]

ScraperListings ==
    { Found(n, NoVal, NoVal, src) : n \in ScraperNames, src \in DataSources }
      \cup { Found(n, Num(lat), Num(lng), src) :
                 n \in ScraperNames, lat \in ScraperLats, lng \in Meridians,
                 src \in DataSources }

\* a source returns one more hotel (results.extend)
SearchSource(h) ==
    /\ PatternIdle /\ DbIdle /\ ClusterIdle
    /\ enriched = NoVal
    /\ Len(search_results) < MaxListings
    /\ search_results' = Append(search_results, h)
    /\ UNCHANGED enriched
    /\ UNCHANGED <<dedupVars, bookingVars, patternVars, dbVars, clusters, storeVars, riskVars, auditVars, serviceVars>>

\* self._compare_and_enrich_results(results)
CompareAndEnrich ==
    /\ PatternIdle /\ DbIdle /\ ClusterIdle
    /\ enriched = NoVal
    /\ enriched' = CompareAndEnrichOf(search_results)
    /\ UNCHANGED search_results
    /\ UNCHANGED <<dedupVars, bookingVars, patternVars, dbVars, clusters, storeVars, riskVars, auditVars, serviceVars>>

(***************************************************************************)
(* Database (sqlite) and ViolationDetection.detect_unusual_clusters        *)
(***************************************************************************)
\* INSERT INTO hotels: the new row is the last of the table
InsertRow(table, hotel_data) == Append(table, hotel_data)

\* str.split(): the words of s, separated by blanks
RECURSIVE SplitWords(_, _)
SplitWords(s, word) ==
    IF s = << >> THEN (IF word = << >> THEN << >> ELSE << word >>)
    ELSE IF Head(s) = " "
    THEN (IF word = << >> THEN << >> ELSE << word >>) \o SplitWords(Tail(s), << >>)
    ELSE SplitWords(Tail(s), Append(word, Head(s)))

RECURSIVE Flatten(_)
Flatten(ss) == IF ss = << >> THEN << >> ELSE Head(ss) \o Flatten(Tail(ss))

Count(seq, x) == Cardinality({ k \in 1..Len(seq) : seq[k] = x })

SeqSum(seq) == SetSum(seq, 1..Len(seq))

\* the patterns of _analyze_hotel_cluster, in the order it appends them
ClusterPatterns(hs, cluster, criteria) ==
    LET members    == { cluster[k] : k \in 1..Len(cluster) }
        owners     == { hs[i].owner : i \in { j \in members : hs[j].owner # << >> } }
        official   == Cardinality({ i \in members :
                                      hs[i].verification_status = "verified" })
        unofficial == Len(cluster) - official
        name_parts == Flatten([k \in 1..Len(cluster) |->
                                 IF hs[cluster[k]].name # << >>
                                 THEN SplitWords(Lower(hs[cluster[k]].name), << >>)
                                 ELSE << >>])
        common     == { k \in 1..Len(name_parts) :
                          /\ Len(name_parts[k]) >= 4
                          /\ 2 * Count(name_parts, name_parts[k]) >= Len(cluster) }
    IN  (IF Cardinality(owners) > 1
           THEN << [type |-> "multiple_owners", severity |-> "medium"] >>
           ELSE << >>)
        \o (IF official > 0 /\ unofficial > 0
              THEN << [type |-> "official_unofficial_mix", severity |-> "high"] >>
              ELSE << >>)
        \o (IF Len(cluster) >= 5 /\ criteria.max_distance_meters <= 100
              THEN << [type |-> "high_density", severity |-> "medium"] >>
              ELSE << >>)
        \o (IF common # {}
              THEN << [type |-> "similar_naming", severity |-> "medium"] >>
              ELSE << >>)

\* the amount _analyze_hotel_cluster adds to risk_score with a pattern
ClusterPatternScore(pattern) == IF pattern.severity = "high" THEN 3 ELSE 2

\* ViolationDetection._analyze_hotel_cluster: None or the cluster's analysis
AnalyzeHotelCluster(hs, cluster, criteria) ==
    IF Len(cluster) < criteria.min_cluster_size THEN NoVal
    ELSE
      LET patterns   == ClusterPatterns(hs, cluster, criteria)
          risk_score == SeqSum([k \in 1..Len(patterns) |->
                                   ClusterPatternScore(patterns[k])])
      IN  IF patterns = << >> \/ risk_score < criteria.min_risk_score THEN NoVal
          ELSE Some([center_latitude |->
                         Rat(SeqSum([k \in 1..Len(cluster) |->
                                        Val(hs[cluster[k]].latitude)]),
                             Len(cluster)),
                     radius_meters |-> criteria.max_distance_meters,
                     hotels |-> cluster,
                     hotel_count |-> Len(cluster),
                     patterns |-> patterns,
                     risk_score |-> risk_score,
                     risk_level |-> IF risk_score >= 6 THEN "high"
                                    ELSE IF risk_score >= 3 THEN "medium"
                                    ELSE "low"])

\* a clustering whose inner loop does not mark the hotels it takes
ClusterMembersNoMark(hs, i, processed, criteria) ==
    { j \in 1..Len(hs) :
        /\ j # i
        /\ HasCoords(hs[j])
        /\ HaversineMeters(hs[i].latitude, hs[i].longitude,
                           hs[j].latitude, hs[j].longitude)
              <= criteria.max_distance_meters }

\* the hotels the inner loop of _simple_cluster_analysis adds to the cluster
\* of hs[i]; only the hotels with coordinates are in its argument
ClusterMembers(hs, i, processed, criteria) ==
    { j \in 1..Len(hs) :
        /\ j \notin processed
        /\ j # i
        /\ HasCoords(hs[j])
        /\ HaversineMeters(hs[i].latitude, hs[i].longitude,
                           hs[j].latitude, hs[j].longitude)
              <= criteria.max_distance_meters }

\* ViolationDetection._simple_cluster_analysis over the hotels with coordinates
RECURSIVE SimpleClusterFrom(_, _, _, _, _)
SimpleClusterFrom(hs, i, processed, found, criteria) ==
    IF i > Len(hs) THEN found
    ELSE IF i \in processed \/ ~HasCoords(hs[i])
    THEN SimpleClusterFrom(hs, i + 1, processed, found, criteria)
    ELSE
      LET members == ClusterMembers(hs, i, processed \cup {i}, criteria)
          cluster == << i >> \o Ascending(members)
      IN  SimpleClusterFrom(hs, i + 1, processed \cup {i} \cup members,
              found \o (IF Len(cluster) >= criteria.min_cluster_size
                          THEN AnalyzeHotelCluster(hs, cluster, criteria)
                          ELSE << >>),
              criteria)

\* ViolationDetection.detect_unusual_clusters, without scikit-learn
\* (SKLEARN_AVAILABLE = False, or its fallback)
DetectUnusualClustersOf(hs, criteria) == SimpleClusterFrom(hs, 1, {}, << >>, criteria)

\* sklearn.cluster.DBSCAN(eps, min_samples).fit. near[i] is the set of the
\* samples within eps of sample i, i among them; a core sample has at least
\* min_samples of them
CoreSamples(near, min_samples) ==
    { i \in 1..Len(near) : Cardinality(near[i]) >= min_samples }

\* the samples reached from S through the neighbourhoods of core samples
RECURSIVE DensityReachable(_, _, _)
DensityReachable(near, core, S) ==
    LET grown == S \cup UNION { near[i] : i \in S \cap core }
    IN  IF grown = S THEN S ELSE DensityReachable(near, core, grown)

\* the samples are visited in index order; an unlabelled core sample opens
\* the next label and gives it to every sample reached from it that has no
\* label yet
RECURSIVE DBSCANFrom(_, _, _, _, _)
DBSCANFrom(near, core, i, labelled, found) ==
    IF i > Len(near) THEN found
    ELSE IF i \in labelled \/ i \notin core
    THEN DBSCANFrom(near, core, i + 1, labelled, found)
    ELSE LET members == DensityReachable(near, core, {i}) \ labelled
         IN  DBSCANFrom(near, core, i + 1, labelled \cup members,
                        Append(found, members))

\* the samples of label 0, 1, ...; the samples in none have the label -1
DBSCAN(near, min_samples) ==
    DBSCANFrom(near, CoreSamples(near, min_samples), 1, {}, << >>)

\* metres of one degree of latitude on the sphere of HaversineMeters
MetersPerDegree == 111195

\* metres taken for one degree by detect_unusual_clusters
MetersPerDegreeApprox == 111000

\* the hotels within eps = max_distance_meters / 111000 degrees of each
\* hotel that has coordinates
NearInDegrees(hs, criteria) ==
    [i \in 1..Len(hs) |->
        IF ~HasCoords(hs[i]) THEN { }
        ELSE { j \in 1..Len(hs) :
                 /\ HasCoords(hs[j])
                 /\ HaversineMeters(hs[i].latitude, hs[i].longitude,
                                    hs[j].latitude, hs[j].longitude)
                       * MetersPerDegreeApprox
                       <= criteria.max_distance_meters * MetersPerDegree }]

\* the clusters in the order their labels first appear in labels_
RECURSIVE ByFirstMember(_)
ByFirstMember(found) ==
    IF found = { } THEN << >>
    ELSE LET first == CHOOSE c \in found :
                          \A d \in found : Ascending(c)[1] <= Ascending(d)[1]
         IN  << first >> \o ByFirstMember(found \ { first })

\* the analysis of each labelled cluster that _analyze_hotel_cluster keeps
RECURSIVE AnalyzeEach(_, _, _, _)
AnalyzeEach(hs, ordered, k, criteria) ==
    IF k > Len(ordered) THEN << >>
    ELSE AnalyzeHotelCluster(hs, Ascending(ordered[k]), criteria)
           \o AnalyzeEach(hs, ordered, k + 1, criteria)

\* ViolationDetection.detect_unusual_clusters in either build
DetectUnusualClustersWith(hs, criteria, sklearn_available) ==
    IF /\ sklearn_available
       /\ Cardinality({ i \in 1..Len(hs) : HasCoords(hs[i]) }) >= criteria.min_cluster_size
    THEN LET found == DBSCAN(NearInDegrees(hs, criteria), criteria.min_cluster_size)
         IN  AnalyzeEach(hs, ByFirstMember({ found[k] : k \in 1..Len(found) }), 1,
                         criteria)
    ELSE DetectUnusualClustersOf(hs, criteria)

ClusterLats == { 30, 60, 120, 210 }

Row(n, lat, lng, status, owner) ==
    [name |-> n, latitude |-> lat, longitude |-> lng,
     verification_status |-> status, owner |-> owner]

\* unnamed hotels, verified or not, one without coordinates, two with an
\* owner and a named one
ClusterListings ==
    { Row(<< >>, Num(lat), Num(lng), st, << >>) :
         lat \in ClusterLats, lng \in Meridians, st \in { "verified", "unverified" } }
      \cup { Row(<< >>, NoVal, NoVal, "verified", << >>) }
      \cup { Row(<< >>, Num(60), Num(lng), "unverified", <<"o">>) : lng \in Meridians }
      \cup { Row(<< >>, Num(120), Num(lng), "unverified", <<"p">>) : lng \in Meridians }
      \cup { Row(<<"I", "n", "n", "s", " ", "x">>, Num(60), Num(lng), "unverified", << >>) :
                 lng \in Meridians }

\* the default criteria of detect_unusual_clusters, and a finer one
ClusterCriteria ==
    { [min_cluster_size |-> 3, max_distance_meters |-> 100, min_risk_score |-> 3],
      [min_cluster_size |-> 2, max_distance_meters |-> 50, min_risk_score |-> 2] }

\* Database.save_hotel on sqlite: one INSERT, on a table of fewer than max rows
StoreHotelUpTo(h, max) ==
    /\ PatternIdle /\ ScraperIdle
    /\ clusters = NoVal
    /\ db_type = "sqlite"
    /\ Len(hotels) < max
    /\ hotels' = InsertRow(hotels, h)
    /\ UNCHANGED <<db_type, clusters>>
    /\ UNCHANGED <<dedupVars, bookingVars, patternVars, scraperVars, storeVars, riskVars, auditVars, serviceVars>>

StoreHotel(h) == StoreHotelUpTo(h, MaxListings)

\* ViolationDetection.detect_unusual_clusters(criteria)
DetectUnusualClusters(criteria) ==
    /\ PatternIdle /\ ScraperIdle
    /\ clusters = NoVal
    /\ \E sklearn_available \in BOOLEAN :
          clusters' = Some(DetectUnusualClustersWith(hotels, criteria,
                                                     sklearn_available))
    /\ cluster_criteria' = Some(criteria)
    /\ UNCHANGED <<db_type, hotels>>
    /\ UNCHANGED <<history_read, location_analysis, deleted, geo_clusters,
                   density_clusters, serviceVars>>
    /\ UNCHANGED <<dedupVars, bookingVars, patternVars, scraperVars, storeVars, riskVars>>

(***************************************************************************)
(* Database.save_hotel called by concurrent workers. A call on sqlite is   *)
(* one INSERT; on csv it appends a row and then re-reads the file to count *)
(* its rows; on excel it reads the whole file, adds the row to the copy    *)
(* and writes the copy back.                                               *)
(***************************************************************************)
Workers == { 1, 2 }

DbTypes == { "sqlite", "csv", "excel" }

StoreNames == { <<"a">>, <<"b">> }

StoreLats == { 30, 60 }

StoreListings ==
    { Hotel(n, Num(lat), Num(lng)) :
         n \in StoreNames, lat \in StoreLats, lng \in Meridians }

StoreIdle ==
    /\ pc = [w \in Workers |-> "idle"]
    /\ job = [w \in Workers |-> NoVal]
    /\ df = [w \in Workers |-> << >>]
    /\ returned = [w \in Workers |-> NoVal]

\* save_hotel on sqlite: INSERT, commit, return lastrowid
SaveHotelSqlite(w, hotel_data) ==
    /\ db_type = "sqlite"
    /\ pc[w] = "idle"
    /\ Len(hotels) < MaxListings
    /\ hotels' = InsertRow(hotels, hotel_data)
    /\ returned' = [returned EXCEPT ![w] = Num(Len(hotels) + 1)]
    /\ UNCHANGED <<db_type, pc, job, df>>
    /\ UNCHANGED <<dedupVars, bookingVars, patternVars, scraperVars, clusters, riskVars, auditVars, serviceVars>>

\* save_hotel on csv, first half: open(mode='a') and writer.writerow
CsvWriteRow(w, hotel_data) ==
    /\ db_type = "csv"
    /\ pc[w] = "idle"
    /\ Len(hotels) < MaxListings
    /\ hotels' = Append(hotels, hotel_data)
    /\ pc' = [pc EXCEPT ![w] = "written"]
    /\ job' = [job EXCEPT ![w] = Some(hotel_data)]
    /\ UNCHANGED <<db_type, df, returned>>
    /\ UNCHANGED <<dedupVars, bookingVars, patternVars, scraperVars, clusters, riskVars, auditVars, serviceVars>>

\* save_hotel on csv, second half: re-read the file and return its row count
CsvCountRows(w) ==
    /\ db_type = "csv"
    /\ pc[w] = "written"
    /\ returned' = [returned EXCEPT ![w] = Num(Len(hotels))]
    /\ pc' = [pc EXCEPT ![w] = "idle"]
    /\ job' = [job EXCEPT ![w] = NoVal]
    /\ UNCHANGED <<db_type, hotels, df>>
    /\ UNCHANGED <<dedupVars, bookingVars, patternVars, scraperVars, clusters, riskVars, auditVars, serviceVars>>

\* save_hotel on excel, first half: pd.read_excel and pd.concat
ExcelRead(w, hotel_data) ==
    /\ db_type = "excel"
    /\ pc[w] = "idle"
    /\ Len(hotels) < MaxListings
    /\ df' = [df EXCEPT ![w] = Append(hotels, hotel_data)]
    /\ pc' = [pc EXCEPT ![w] = "read"]
    /\ job' = [job EXCEPT ![w] = Some(hotel_data)]
    /\ UNCHANGED <<db_type, hotels, returned>>
    /\ UNCHANGED <<dedupVars, bookingVars, patternVars, scraperVars, clusters, riskVars, auditVars, serviceVars>>

\* save_hotel on excel, second half: df.to_excel replaces the file
ExcelWrite(w) ==
    /\ db_type = "excel"
    /\ pc[w] = "read"
    /\ hotels' = df[w]
    /\ returned' = [returned EXCEPT ![w] = Num(Len(df[w]))]
    /\ pc' = [pc EXCEPT ![w] = "idle"]
    /\ job' = [job EXCEPT ![w] = NoVal]
    /\ df' = [df EXCEPT ![w] = << >>]
    /\ UNCHANGED db_type
    /\ UNCHANGED <<dedupVars, bookingVars, patternVars, scraperVars, clusters, riskVars, auditVars, serviceVars>>

(***************************************************************************)
(* The collaborators of the analyses. ViolationDetection and               *)
(* TemporalAnalysis probe the database for get_hotel_history and           *)
(* get_hotel_listings and the scraper for check_location_type before they  *)
(* call them; here the database keeps a table of history events and a      *)
(* table of platform listings, each row carrying the id of its hotel, and  *)
(* the scraper knows which latitudes are residential.                      *)
(***************************************************************************)
\* datetime.now(), as a day number
Today == 1000

\* the words the analyses look for in an event type, by event type
EventTypeWords(event_type) ==
    CASE event_type = "name_change" -> { "name" }
      [] event_type = "ownership_change" -> { "owner" }
      [] event_type = "legal_status_change" -> { "status" }
      [] event_type = "classification_change" -> { "classification" }
      [] event_type = "platform_change" -> { "platform" }
      [] event_type = "address_change" -> { "address" }
      [] event_type = "owner_change" -> { "owner" }
      [] event_type = "verification_status_change" -> { "status" }
      [] event_type = "closure" -> { "closure" }
      [] event_type = "opening" -> { "opening" }
      [] OTHER -> { }

\* the words the analyses look for in a lower-cased old or new value
ValueWords(value) ==
    CASE value = "Hotel" -> { "hotel" }
      [] value = "Commercial" -> { "commercial" }
      [] value = "Private villa" -> { "private" }
      [] value = "Residential" -> { "residential" }
      [] value = "Booking.com" -> { "booking.com" }
      [] value = "Airbnb" -> { "airbnb" }
      [] value = "3-star hotel" -> { "hotel" }
      [] value = "Residential apartment" -> { "residential" }
      [] value = "Closed" -> { "closed" }
      [] value = "Open" -> { "open" }
      [] OTHER -> { }

\* word in value.lower()
Mentions(value, word) == word \in ValueWords(value)

Event(event_type, event_date, old_value, new_value) ==
    [event_type |-> event_type, event_date |-> event_date,
     old_value |-> old_value, new_value |-> new_value]

\* db.get_hotel_history(hotel_id, after_date): the events of the hotel, in
\* the order they were recorded, after the date when one is given
GetHotelHistory(hotel_id, after_date) ==
    LET rows == SelectSeq(hotel_history,
                    LAMBDA r : r.hotel_id = hotel_id
                               /\ (after_date # NoVal =>
                                      r.event.event_date > Val(after_date)))
    IN  [k \in 1..Len(rows) |-> rows[k].event]

\* db.get_hotel_listings(hotel_id)
GetHotelListings(hotel_id) ==
    LET rows == SelectSeq(hotel_listings, LAMBDA r : r.hotel_id = hotel_id)
    IN  [k \in 1..Len(rows) |-> rows[k].listing]

ResidentialLats == { 60 }

\* scraper.check_location_type(latitude, longitude)
CheckLocationType(latitude, longitude) ==
    IF Val(latitude) \in ResidentialLats THEN "residential" ELSE "commercial"

\* Database.search_hotels({}): every row that has not been deleted, with its
\* id
GetAllHotels ==
    SelectSeq([i \in 1..Len(hotels) |-> ("id" :> i) @@ hotels[i]],
              LAMBDA h : h.id \notin deleted)

\* Database.search_hotels({"id": hotel_id}): a criterion whose value is
\* false is skipped, so id 0 selects every row; on csv and excel a criterion
\* on a column the file does not have is skipped too, and save_hotel writes
\* no id column
SearchHotelsById(hotel_id) ==
    IF db_type = "sqlite"
    THEN SelectSeq(GetAllHotels, LAMBDA h : hotel_id = 0 \/ h.id = hotel_id)
    ELSE hotels

\* Database.get_hotel_by_id: results[0] if results else None
GetHotelById(hotel_id) ==
    LET found == SearchHotelsById(hotel_id)
    IN  IF found # << >> THEN Some(found[1]) ELSE NoVal

\* a caller looks a hotel up by its id; the call is kept with its result
LookUpHotel(hotel_id) ==
    /\ lookup = NoVal
    /\ lookup' = Some([hotel_id |-> hotel_id, result |-> GetHotelById(hotel_id)])
    /\ UNCHANGED similarities
    /\ UNCHANGED searchVars
    /\ UNCHANGED lateVars
    /\ UNCHANGED <<dedupVars, bookingVars, patternVars, scraperVars, dbVars, clusters,
                   storeVars, riskVars, auditVars>>

(***************************************************************************)
(* ViolationDetection._analyze_hotel_risk_factors                          *)
(***************************************************************************)
EssentialFields == << "name", "address", "phone", "email", "website", "stars" >>

\* not hotel.get(field)
Missing(hotel, field) ==
    IF field = "stars" THEN ~Truthy(hotel.stars) ELSE hotel[field] = << >>

\* a scoring that adds 1 whatever the severity
SeverityPointsFlat(severity) == 1

\* the if/elif/else that adds 3, 2 or 1 to the score by severity
SeverityPoints(severity) ==
    IF severity = "high" THEN 3 ELSE IF severity = "medium" THEN 2 ELSE 1

\* risk_factors.append({...}) followed by risk_score += points
AddRiskFactor(risk_analysis, type, severity, details, points) ==
    [risk_analysis EXCEPT
        !.risk_factors = Append(@, [type |-> type, severity |-> severity,
                                     details |-> details]),
        !.risk_score = @ + points]

\* a sparse-data check that is high only from five missing fields on
CheckSparseDataFromFive(hotel, risk_analysis) ==
    LET missing_fields == SelectSeq(EssentialFields, LAMBDA f : Missing(hotel, f))
        severity == IF Len(missing_fields) >= 5 THEN "high"
                    ELSE IF Len(missing_fields) >= 2 THEN "medium" ELSE "low"
    IN  IF missing_fields = << >> THEN risk_analysis
        ELSE AddRiskFactor(risk_analysis, "sparse_data", severity,
                           missing_fields, SeverityPoints(severity))

\* 1. sparse data
CheckSparseData(hotel, risk_analysis) ==
    LET missing_fields == SelectSeq(EssentialFields, LAMBDA f : Missing(hotel, f))
        severity == IF Len(missing_fields) >= 4 THEN "high"
                    ELSE IF Len(missing_fields) >= 2 THEN "medium" ELSE "low"
    IN  IF missing_fields = << >> THEN risk_analysis
        ELSE AddRiskFactor(risk_analysis, "sparse_data", severity,
                           missing_fields, SeverityPoints(severity))

\* 2. significant changes in the last 90 days
CheckRecentChanges(hotel, risk_analysis) ==
    LET history == GetHotelHistory(hotel.id, Num(Today - 90))
        significant_changes ==
            SelectSeq(history,
                LAMBDA record :
                    EventTypeWords(record.event_type)
                        \cap { "name", "owner", "status", "classification" } # { })
        severity == IF Len(significant_changes) >= 3 THEN "high"
                    ELSE IF Len(significant_changes) >= 2 THEN "medium" ELSE "low"
    IN  IF hotel.id = 0 \/ significant_changes = << >> THEN risk_analysis
        ELSE AddRiskFactor(risk_analysis, "recent_significant_changes", severity,
                           Len(significant_changes), SeverityPoints(severity))

\* 3. unofficial platforms
CheckPlatforms(hotel, risk_analysis) ==
    LET listings == GetHotelListings(hotel.id)
        official_count == Len(SelectSeq(listings, LAMBDA l : l.is_official))
        unofficial_count == Len(SelectSeq(listings, LAMBDA l : ~l.is_official))
    IN  IF hotel.id = 0 \/ listings = << >> THEN risk_analysis
        ELSE IF unofficial_count > 0 /\ official_count = 0
             THEN AddRiskFactor(risk_analysis, "unofficial_platforms_only", "high",
                                unofficial_count, 3)
        ELSE IF unofficial_count > official_count
             THEN AddRiskFactor(risk_analysis, "more_unofficial_platforms", "medium",
                                << unofficial_count, official_count >>, 2)
        ELSE IF unofficial_count > 0
             THEN AddRiskFactor(risk_analysis, "some_unofficial_platforms", "low",
                                unofficial_count, 1)
        ELSE risk_analysis

\* expected_facilities[5] and expected_facilities[4]
ExpectedFacilities(stars) ==
    IF stars >= 5
    THEN << "restaurant", "pool", "spa", "gym", "room service", "concierge" >>
    ELSE << "restaurant", "pool", "gym", "room service" >>

\* 4. classification against facilities; the facilities text is the set of
\* facility names it mentions
CheckFacilities(hotel, risk_analysis) ==
    IF ~Truthy(hotel.stars) \/ hotel.facilities = { } THEN risk_analysis
    ELSE IF Val(hotel.stars) >= 4
    THEN LET expected == ExpectedFacilities(Val(hotel.stars))
             missing == SelectSeq(expected, LAMBDA f : f \notin hotel.facilities)
         IN  IF Len(missing) >= Len(expected) \div 2
             THEN AddRiskFactor(risk_analysis, "facilities_rating_mismatch", "medium",
                                << Val(hotel.stars), missing >>, 2)
             ELSE risk_analysis
    ELSE risk_analysis

\* 5. residential location
CheckResidential(hotel, risk_analysis) ==
    IF Truthy(hotel.latitude) /\ Truthy(hotel.longitude)
       /\ CheckLocationType(hotel.latitude, hotel.longitude) = "residential"
    THEN AddRiskFactor(risk_analysis, "residential_location", "medium", << >>, 2)
    ELSE risk_analysis

\* 6. the risk_score already on the record
CheckExistingScore(hotel, risk_analysis) ==
    IF ~Truthy(hotel.risk_score) THEN risk_analysis
    ELSE LET existing_score == Val(hotel.risk_score)
         IN  IF existing_score >= 7
             THEN AddRiskFactor(risk_analysis, "existing_high_risk", "high",
                                existing_score, 3)
             ELSE IF existing_score >= 4
             THEN AddRiskFactor(risk_analysis, "existing_medium_risk", "medium",
                                existing_score, 2)
             ELSE risk_analysis

\* the verification status
CheckUnverified(hotel, risk_analysis) ==
    IF hotel.verification_status = "unverified"
    THEN AddRiskFactor(risk_analysis, "unverified", "medium", << >>, 2)
    ELSE risk_analysis

\* the overall level of a score
RiskLevel(risk_score) ==
    IF risk_score >= 7 THEN "high" ELSE IF risk_score >= 3 THEN "medium" ELSE "low"

AnalyzeHotelRiskFactors(hotel) ==
    LET initial == [risk_factors |-> << >>, risk_score |-> 0]
        checked ==
            CheckUnverified(hotel,
              CheckExistingScore(hotel,
                CheckResidential(hotel,
                  CheckFacilities(hotel,
                    CheckPlatforms(hotel,
                      CheckRecentChanges(hotel,
                        CheckSparseData(hotel, initial)))))))
    IN  [risk_factors |-> checked.risk_factors,
         risk_score |-> checked.risk_score,
         risk_level |-> RiskLevel(checked.risk_score)]

(***************************************************************************)
(* ViolationDetection.analyze_potential_violations and                     *)
(* list_high_risk_hotels                                                   *)
(***************************************************************************)
\* list.sort(key, reverse=True) on a list of << key, item >> pairs: stable,
\* larger keys first
RECURSIVE InsertByKey(_, _)
InsertByKey(sorted, x) ==
    IF sorted = << >> THEN << x >>
    ELSE IF Head(sorted)[1] >= x[1]
         THEN << Head(sorted) >> \o InsertByKey(Tail(sorted), x)
         ELSE << x >> \o sorted

RECURSIVE SortKeyed(_, _)
SortKeyed(keyed, k) ==
    IF k = 0 THEN << >>
    ELSE InsertByKey(SortKeyed(keyed, k - 1), keyed[k])

\* the items of list, largest Key first
SortDescending(list, Key(_)) ==
    LET sorted == SortKeyed([k \in 1..Len(list) |-> << Key(list[k]), list[k] >>],
                            Len(list))
    IN  [k \in 1..Len(sorted) |-> sorted[k][2]]

\* a query that never cuts its result
NoLimit(list, max_results) == list

\* if max_results and len(results) > max_results: results[:max_results]
Limit(list, max_results) ==
    IF max_results # 0 /\ Len(list) > max_results
    THEN SubSeq(list, 1, max_results) ELSE list

\* the criteria used when the caller gives none
DefaultViolationCriteria ==
    [min_risk_score |-> 3, max_results |-> 100, sort_by |-> "risk_score"]

DefaultHighRiskCriteria ==
    [min_risk_score |-> 5, max_results |-> 100, sort_by |-> "risk_score"]

AnalysisScore(x) == x.risk_analysis.risk_score

AnalyzePotentialViolationsOf(given) ==
    LET c == IF given = NoVal THEN DefaultViolationCriteria ELSE Val(given)
        all_hotels == GetAllHotels
        analysed == [i \in 1..Len(all_hotels) |->
                        ("risk_analysis" :> AnalyzeHotelRiskFactors(all_hotels[i]))
                            @@ all_hotels[i]]
        kept == SelectSeq(analysed, LAMBDA x : AnalysisScore(x) >= c.min_risk_score)
    IN  Limit(SortDescending(kept, AnalysisScore), c.max_results)

\* the score list_high_risk_hotels goes by: the one on the record when there
\* is one, the computed one otherwise
ListedScore(x) ==
    IF Truthy(x.risk_score) THEN Val(x.risk_score) ELSE x.risk_analysis.risk_score

StarsKey(x) == IF Truthy(x.stars) THEN Val(x.stars) ELSE 0

ListHighRiskHotelsOf(given) ==
    LET c == IF given = NoVal THEN DefaultHighRiskCriteria ELSE Val(given)
        all_hotels == GetAllHotels
        scored == [i \in 1..Len(all_hotels) |->
                     IF Truthy(all_hotels[i].risk_score) THEN all_hotels[i]
                     ELSE ("risk_analysis" :> AnalyzeHotelRiskFactors(all_hotels[i]))
                              @@ all_hotels[i]]
        kept == SelectSeq(scored, LAMBDA x : ListedScore(x) >= c.min_risk_score)
        sorted == IF c.sort_by = "risk_score"
                  THEN SortDescending(kept, ListedScore)
                  ELSE IF c.sort_by = "stars"
                  THEN SortDescending(kept, StarsKey)
                  ELSE kept
    IN  Limit(sorted, c.max_results)

(***************************************************************************)
(* TemporalAnalysis.analyze_hotel_history                                  *)
(***************************************************************************)
\* event_type == type or word in event_type
IsEvent(record, type, word) ==
    record.event_type = type \/ word \in EventTypeWords(record.event_type)

IsNameChange(record) == IsEvent(record, "name_change", "name")

IsOwnershipChange(record) == IsEvent(record, "ownership_change", "owner")

IsStatusChange(record) == IsEvent(record, "legal_status_change", "status")

IsListingChange(record) == IsEvent(record, "listing_change", "platform")

IsLocationChange(record) == IsEvent(record, "location_change", "address")

\* history.sort(key=event_date): stable, earlier dates first
RECURSIVE InsertByDate(_, _)
InsertByDate(sorted, record) ==
    IF sorted = << >> THEN << record >>
    ELSE IF Head(sorted).event_date <= record.event_date
         THEN << Head(sorted) >> \o InsertByDate(Tail(sorted), record)
         ELSE << record >> \o sorted

RECURSIVE SortByDate(_, _)
SortByDate(history, k) ==
    IF k = 0 THEN << >>
    ELSE InsertByDate(SortByDate(history, k - 1), history[k])

Pattern(type, severity, details) ==
    [type |-> type, severity |-> severity, details |-> details]

\* 1. and 2.: two or more changes, by the days from the first to the last
FrequentChanges(changes, type) ==
    IF Len(changes) >= 2
    THEN LET days_diff == changes[Len(changes)].event_date - changes[1].event_date
         IN  IF days_diff < 365
             THEN << Pattern(type, "high", << Len(changes), days_diff >>) >>
             ELSE IF days_diff < 730
             THEN << Pattern(type, "medium", << Len(changes), days_diff >>) >>
             ELSE << >>
    ELSE << >>

IsDowngrade(change) ==
    \/ Mentions(change.old_value, "hotel") /\ Mentions(change.new_value, "private")
    \/ Mentions(change.old_value, "hotel") /\ Mentions(change.new_value, "residential")
    \/ Mentions(change.old_value, "commercial") /\ Mentions(change.new_value, "residential")

\* 3. one pattern for each status change that is a downgrade
Downgrades(status_changes) ==
    LET downs == SelectSeq(status_changes, IsDowngrade)
    IN  [k \in 1..Len(downs) |->
            Pattern("downgrade_to_residential", "high",
                    << downs[k].old_value, downs[k].new_value, downs[k].event_date >>)]

IsOfficialToPrivate(old_record, new_record) ==
    /\ \/ Mentions(old_record.new_value, "booking.com")
       \/ Mentions(old_record.new_value, "expedia")
       \/ Mentions(old_record.new_value, "tripadvisor")
    /\ \/ Mentions(new_record.new_value, "airbnb")
       \/ Mentions(new_record.new_value, "private")
       \/ Mentions(new_record.new_value, "rental")

\* 4. one pattern for each pair of consecutive listing changes that goes
\* from an official platform to a private one
RECURSIVE PlatformTransitions(_, _)
PlatformTransitions(listing_changes, i) ==
    IF i >= Len(listing_changes) THEN << >>
    ELSE (IF IsOfficialToPrivate(listing_changes[i], listing_changes[i + 1])
          THEN << Pattern("official_to_private_transition", "high", << >>) >>
          ELSE << >>)
         \o PlatformTransitions(listing_changes, i + 1)

\* 5. the first location change after the latest ownership change
LocationChangeSameOwner(location_changes, ownership_changes) ==
    IF location_changes = << >> \/ ownership_changes = << >> THEN << >>
    ELSE LET ownership_date == ownership_changes[Len(ownership_changes)].event_date
             later == SelectSeq(location_changes,
                          LAMBDA change : change.event_date > ownership_date)
         IN  IF later = << >> THEN << >>
             ELSE << Pattern("location_change_same_owner", "medium",
                             later[1].event_date) >>

\* 6. for each name change, the first status change within 30 days of it
NameStatusCorrelation(name_changes, status_changes) ==
    LET near(name_change) ==
            SelectSeq(status_changes,
                LAMBDA s : Abs(name_change.event_date - s.event_date) < 30)
        hits == SelectSeq(name_changes, LAMBDA n : near(n) # << >>)
    IN  [k \in 1..Len(hits) |->
            Pattern("name_status_change_correlation", "high",
                    Abs(hits[k].event_date - near(hits[k])[1].event_date))]

\* TemporalAnalysis._analyze_temporal_patterns
AnalyzeTemporalPatterns(hotel, history) ==
    LET name_changes == SelectSeq(history, IsNameChange)
        ownership_changes == SelectSeq(history, IsOwnershipChange)
        status_changes == SelectSeq(history, IsStatusChange)
        listing_changes == SelectSeq(history, IsListingChange)
        location_changes == SelectSeq(history, IsLocationChange)
    IN  FrequentChanges(name_changes, "frequent_name_changes")
          \o FrequentChanges(ownership_changes, "frequent_ownership_changes")
          \o Downgrades(status_changes)
          \o PlatformTransitions(listing_changes, 1)
          \o LocationChangeSameOwner(location_changes, ownership_changes)
          \o NameStatusCorrelation(name_changes, status_changes)

\* the loop that adds 3, 2 or 1 for each pattern
RECURSIVE PatternScore(_, _)
PatternScore(suspicious_patterns, k) ==
    IF k > Len(suspicious_patterns) THEN 0
    ELSE SeverityPoints(suspicious_patterns[k].severity)
           + PatternScore(suspicious_patterns, k + 1)

\* the level analyze_hotel_history gives a score
HistoryRiskLevel(risk_score) ==
    IF risk_score >= 5 THEN "high" ELSE IF risk_score >= 2 THEN "medium" ELSE "low"

\* the list a record goes to in the if/elif chain of analyze_hotel_history
ChangeList(record) ==
    IF IsNameChange(record) THEN "name_changes"
    ELSE IF IsOwnershipChange(record) THEN "ownership_changes"
    ELSE IF IsStatusChange(record) THEN "status_changes"
    ELSE IF IsListingChange(record) THEN "listing_changes"
    ELSE IF IsLocationChange(record) THEN "location_changes"
    ELSE "none"

AnalyzeHotelHistoryOf(hotel_id) ==
    IF hotel_id = 0 THEN [error |-> "No hotel ID provided"]
    ELSE IF GetHotelById(hotel_id) = NoVal THEN [error |-> "Hotel not found"]
    ELSE LET hotel == Val(GetHotelById(hotel_id))
             unsorted == GetHotelHistory(hotel_id, NoVal)
             history == SortByDate(unsorted, Len(unsorted))
             listed(name) == SelectSeq(history, LAMBDA r : ChangeList(r) = name)
             suspicious_patterns == AnalyzeTemporalPatterns(hotel, history)
             risk_score == PatternScore(suspicious_patterns, 1)
         IN  [hotel_id |-> hotel_id,
              hotel_name |-> hotel.name,
              name_changes |-> listed("name_changes"),
              ownership_changes |-> listed("ownership_changes"),
              status_changes |-> listed("status_changes"),
              listing_changes |-> listed("listing_changes"),
              location_changes |-> listed("location_changes"),
              suspicious_patterns |-> suspicious_patterns,
              risk_score |-> risk_score,
              risk_level |-> HistoryRiskLevel(risk_score)]

\* history = db.get_hotel_history(hotel_id) and history.sort(...): the list
\* the database handed out, as given and as the in-place sort leaves it;
\* None when the analysis returns before it asks for the history
HistoryReadBy(hotel_id) ==
    IF hotel_id = 0 \/ GetHotelById(hotel_id) = NoVal THEN NoVal
    ELSE LET given == GetHotelHistory(hotel_id, NoVal)
         IN  Some([given |-> given, left |-> SortByDate(given, Len(given))])

(***************************************************************************)
(* SettingsModule: the violations section                                  *)
(***************************************************************************)
\* _get_default_settings()["violations"]
DefaultViolationSettings ==
    [min_risk_score |-> 3, high_risk_threshold |-> 7, medium_risk_threshold |-> 3]

\* the values an operator changes a threshold to
SettingChanges ==
    { << "high_risk_threshold", 5 >>, << "medium_risk_threshold", 2 >> }

(***************************************************************************)
(* Inputs of the risk analyses                                             *)
(***************************************************************************)
MaxAssessed == 1

MaxEvents == 3

MaxPlatformListings == 2

ContactFields == { "name", "address", "phone", "email", "website" }

\* a hotel record with the given contact fields filled in
Listed(present, stars, facilities, latitude, status, risk_score) ==
    [name |-> IF "name" \in present THEN <<"a">> ELSE << >>,
     address |-> IF "address" \in present THEN <<"x">> ELSE << >>,
     phone |-> IF "phone" \in present THEN <<"5">> ELSE << >>,
     email |-> IF "email" \in present THEN <<"e">> ELSE << >>,
     website |-> IF "website" \in present THEN <<"w">> ELSE << >>,
     stars |-> stars, facilities |-> facilities,
     latitude |-> latitude,
     longitude |-> IF latitude = NoVal THEN NoVal ELSE Num(46),
     verification_status |-> status, risk_score |-> risk_score]

\* complete and sparse records, verified or not, in a residential area or
\* not, with and without a risk_score on the record
RiskListings ==
    { Listed(ContactFields, Num(3), { "restaurant", "room service" }, Num(30), "verified", NoVal),
      Listed(ContactFields \ { "email" }, Num(3), { }, NoVal, "verified", NoVal),
      Listed(ContactFields, Num(0), { }, Num(30), "verified", NoVal),
      Listed({ "name", "address", "phone" }, Num(3), { }, NoVal, "verified", NoVal),
      Listed({ "name", "address", "phone" }, Num(3), { }, NoVal, "verified", Num(4)),
      Listed(ContactFields, Num(5), { "restaurant", "pool", "gym" }, Num(30), "verified", NoVal),
      Listed(ContactFields, Num(4), { "restaurant", "pool", "gym" }, Num(30), "verified", NoVal),
      Listed({ "name" }, NoVal, { }, NoVal, "unverified", NoVal),
      Listed({ "name" }, NoVal, { }, NoVal, "unverified", Num(5)),
      Listed({ "name" }, NoVal, { }, Num(60), "unverified", Num(7)) }

HistoryEvents ==
    { Event("name_change", 600, "a", "b"),
      Event("name_change", 990, "b", "c"),
      Event("ownership_change", 995, "o", "p"),
      Event("legal_status_change", 995, "Hotel", "Private villa") }

\* criteria of a query: a minimum score, a limit and a sort key
Criteria(min_risk_score, max_results, sort_by) ==
    [min_risk_score |-> min_risk_score, max_results |-> max_results,
     sort_by |-> sort_by]

MinScores == { 0, 3, 5 }

Limits == { 0, 1, 2 }

QueryCriteria ==
    { NoVal } \cup
    { Some(Criteria(m, k, "risk_score")) : m \in MinScores, k \in Limits }

ListingCriteria ==
    QueryCriteria \cup { Some(Criteria(0, 2, "stars")) }

\* criteria under which every hotel is assessed
RiskCriteria == { NoVal, Some(Criteria(0, 100, "risk_score")) }

RiskIdle ==
    /\ settings = DefaultViolationSettings
    /\ hotel_history = << >>
    /\ hotel_listings = << >>
    /\ query_criteria = NoVal
    /\ violations = NoVal
    /\ high_risk_hotels = NoVal
    /\ history_analysis = NoVal

\* no analysis has returned yet
NotAnalysed ==
    violations = NoVal /\ high_risk_hotels = NoVal /\ history_analysis = NoVal

\* SettingsModule.set_setting("violations", key, value)
SetSetting(key, value) ==
    /\ NotAnalysed
    /\ settings[key] # value
    /\ settings' = [settings EXCEPT ![key] = value]
    /\ UNCHANGED <<hotel_history, hotel_listings, query_criteria, violations,
                   high_risk_hotels, history_analysis>>
    /\ UNCHANGED <<dedupVars, bookingVars, patternVars, scraperVars, dbVars,
                   clusters, storeVars, auditVars, serviceVars>>

\* db.record_hotel_history(hotel_id, event_type, old_value, new_value, ...)
RecordHotelHistory(hotel_id, event) ==
    /\ NotAnalysed
    /\ hotel_id \in 1..Len(hotels)
    /\ Len(hotel_history) < MaxEvents
    /\ hotel_history' = Append(hotel_history, [hotel_id |-> hotel_id, event |-> event])
    /\ UNCHANGED <<settings, hotel_listings, query_criteria, violations,
                   high_risk_hotels, history_analysis>>
    /\ UNCHANGED <<dedupVars, bookingVars, patternVars, scraperVars, dbVars,
                   clusters, storeVars, auditVars, serviceVars>>

\* a platform listing of the hotel is recorded
RecordHotelListing(hotel_id, is_official) ==
    /\ NotAnalysed
    /\ hotel_id \in 1..Len(hotels)
    /\ Len(hotel_listings) < MaxPlatformListings
    /\ hotel_listings' = Append(hotel_listings,
                            [hotel_id |-> hotel_id,
                             listing |-> [is_official |-> is_official]])
    /\ UNCHANGED <<settings, hotel_history, query_criteria, violations,
                   high_risk_hotels, history_analysis>>
    /\ UNCHANGED <<dedupVars, bookingVars, patternVars, scraperVars, dbVars,
                   clusters, storeVars, auditVars, serviceVars>>

\* ViolationDetection.analyze_potential_violations(criteria)
AnalyzePotentialViolations(given) ==
    /\ NotAnalysed
    /\ query_criteria' = given
    /\ violations' = Some(AnalyzePotentialViolationsOf(given))
    /\ UNCHANGED <<settings, hotel_history, hotel_listings,
                   high_risk_hotels, history_analysis>>
    /\ UNCHANGED <<dedupVars, bookingVars, patternVars, scraperVars, dbVars,
                   clusters, storeVars, auditVars, serviceVars>>

\* ViolationDetection.list_high_risk_hotels(criteria)
ListHighRiskHotels(given) ==
    /\ NotAnalysed
    /\ query_criteria' = given
    /\ high_risk_hotels' = Some(ListHighRiskHotelsOf(given))
    /\ UNCHANGED <<settings, hotel_history, hotel_listings,
                   violations, history_analysis>>
    /\ UNCHANGED <<dedupVars, bookingVars, patternVars, scraperVars, dbVars,
                   clusters, storeVars, auditVars, serviceVars>>

\* TemporalAnalysis.analyze_hotel_history(hotel_id)
AnalyzeHotelHistory(hotel_id) ==
    /\ NotAnalysed
    /\ history_analysis' = Some(AnalyzeHotelHistoryOf(hotel_id))
    /\ history_read' = HistoryReadBy(hotel_id)
    /\ UNCHANGED <<settings, hotel_history, hotel_listings, query_criteria,
                   violations, high_risk_hotels>>
    /\ UNCHANGED <<location_analysis, deleted, cluster_criteria, geo_clusters,
                   density_clusters, serviceVars>>
    /\ UNCHANGED <<dedupVars, bookingVars, patternVars, scraperVars, dbVars,
                   clusters, storeVars>>

\* update_data['last_updated'] = datetime.now(): a time later than the one
\* the row holds, on the rows that keep the column
Stamped(row) ==
    IF "last_updated" \in DOMAIN row THEN [last_updated |-> row.last_updated + 1]
    ELSE << >>

\* Database.update_hotel(hotel_id, update_data) on a table that has the
\* columns of update_data: the row with the id takes the new values
UpdateHotel(hotel_id, update_data) ==
    /\ hotel_id \in 1..Len(hotels)
    /\ hotel_id \notin deleted
    /\ hotels' = [hotels EXCEPT ![hotel_id] = Stamped(@) @@ update_data @@ @]
    /\ UNCHANGED db_type
    /\ UNCHANGED riskVars
    /\ UNCHANGED <<dedupVars, bookingVars, patternVars, scraperVars,
                   clusters, storeVars, auditVars, serviceVars>>

\* the scores analyze_potential_violations returned, by hotel id
AssessedScores ==
    IF violations = NoVal THEN { }
    ELSE { << Val(violations)[k].id, Val(violations)[k].risk_analysis.risk_score >> :
              k \in 1..Len(Val(violations)) }

(***************************************************************************)
(* TemporalAnalysis.analyze_location_changes                               *)
(***************************************************************************)
\* self._haversine_distance(lat, lng, hotel_lat, hotel_lng): TemporalAnalysis
\* defines no such method, so the call raises AttributeError and gives no
\* distance
TemporalHaversineDistance(lat1, lng1, lat2, lng2) == NoVal

\* the hotels the proximity loop keeps: a hotel whose distance cannot be
\* computed is skipped by the except clause
HotelsInLocation(lat, lng, radius) ==
    SelectSeq(GetAllHotels,
        LAMBDA hotel :
            /\ Truthy(hotel.latitude) /\ Truthy(hotel.longitude)
            /\ LET distance == TemporalHaversineDistance(lat, lng, hotel.latitude,
                                                         hotel.longitude)
               IN  distance # NoVal /\ Val(distance) <= radius)

\* the default time range: the last five years
DefaultTimeRange == << Today - 5 * 365, Today >>

\* the history of a hotel within the time range
FilteredHistory(hotel, time_range) ==
    SelectSeq(GetHotelHistory(hotel.id, NoVal),
        LAMBDA record : /\ time_range[1] <= record.event_date
                        /\ record.event_date <= time_range[2])

\* the entries of the unified timeline, hotel by hotel
RECURSIVE UnifiedTimeline(_, _, _)
UnifiedTimeline(hotels_in_location, time_range, k) ==
    IF k > Len(hotels_in_location) THEN << >>
    ELSE LET hotel == hotels_in_location[k]
             history == FilteredHistory(hotel, time_range)
         IN  [n \in 1..Len(history) |->
                 [date |-> history[n].event_date, hotel_id |-> hotel.id,
                  event_type |-> history[n].event_type,
                  old_value |-> history[n].old_value,
                  new_value |-> history[n].new_value]]
             \o UnifiedTimeline(hotels_in_location, time_range, k + 1)

\* unified_timeline.sort(key=date): stable, earlier dates first
SortTimeline(unified_timeline) ==
    LET sorted == SortKeyed([k \in 1..Len(unified_timeline) |->
                                << 0 - unified_timeline[k].date, unified_timeline[k] >>],
                            Len(unified_timeline))
    IN  [k \in 1..Len(sorted) |-> sorted[k][2]]

IsClosure(e) ==
    \/ "closure" \in EventTypeWords(e.event_type)
    \/ "status" \in EventTypeWords(e.event_type) /\ Mentions(e.new_value, "closed")

IsOpening(e) ==
    \/ "opening" \in EventTypeWords(e.event_type)
    \/ "status" \in EventTypeWords(e.event_type) /\ Mentions(e.new_value, "open")

\* 2. for each closure, the later openings of other hotels within 180 days
RECURSIVE SequentialClosureOpening(_, _, _)
SequentialClosureOpening(closure_events, opening_events, k) ==
    IF k > Len(closure_events) THEN << >>
    ELSE LET closure == closure_events[k]
             later == SelectSeq(opening_events,
                          LAMBDA opening :
                              /\ opening.date > closure.date
                              /\ opening.hotel_id # closure.hotel_id
                              /\ opening.date - closure.date <= 180)
         IN  [n \in 1..Len(later) |->
                 [type |-> "sequential_closure_opening",
                  days_between |-> later[n].date - closure.date,
                  closure |-> closure, opening |-> later[n]]]
             \o SequentialClosureOpening(closure_events, opening_events, k + 1)

\* the patterns of the timeline
LocationPatterns(unified_timeline) ==
    LET hotel_ids == { unified_timeline[k].hotel_id : k \in 1..Len(unified_timeline) }
    IN  (IF Cardinality(hotel_ids) > 1
         THEN << [type |-> "multiple_hotels_same_location",
                  count |-> Cardinality(hotel_ids), hotel_ids |-> hotel_ids] >>
         ELSE << >>)
        \o SequentialClosureOpening(SelectSeq(unified_timeline, IsClosure),
                                    SelectSeq(unified_timeline, IsOpening), 1)

\* analyze_location_changes(location, radius) with the default time range;
\* coordinates is None when the location could not be resolved, and the
\* method then returns an empty list in place of the analysis
AnalyzeLocationChangesOf(coordinates, radius) ==
    IF coordinates = NoVal THEN [unresolved |-> TRUE]
    ELSE LET lat == Val(coordinates)[1]
             lng == Val(coordinates)[2]
             hotels_in_location == HotelsInLocation(lat, lng, radius)
             with_history ==
                 SelectSeq(hotels_in_location,
                     LAMBDA hotel : FilteredHistory(hotel, DefaultTimeRange) # << >>)
             unified_timeline ==
                 SortTimeline(UnifiedTimeline(with_history, DefaultTimeRange, 1))
         IN  [location |-> [latitude |-> lat, longitude |-> lng, radius |-> radius],
              total_hotels |-> Len(hotels_in_location),
              hotels_with_history |-> Len(with_history),
              timeline |-> unified_timeline,
              patterns |-> LocationPatterns(unified_timeline)]

(***************************************************************************)
(* Inputs of the temporal analyses                                         *)
(***************************************************************************)
MaxArea == 2

\* two complete hotels 30 m apart on one meridian
TemporalListings ==
    { Listed(ContactFields, Num(3), { }, Num(30), "verified", NoVal),
      Listed(ContactFields, Num(3), { }, Num(60), "verified", NoVal) }

\* classification changes, name and ownership changes over the years, platform
\* changes, a closure, an opening and a change of address
TemporalEvents ==
    { Event("legal_status_change", 960, "3-star hotel", "Residential apartment"),
      Event("legal_status_change", 960, "Commercial", "Private villa"),
      Event("classification_change", 960, "Hotel", "Residential"),
      Event("name_change", 100, "a", "b"),
      Event("name_change", 700, "b", "c"),
      Event("name_change", 990, "c", "d"),
      Event("ownership_change", 200, "o", "p"),
      Event("ownership_change", 920, "p", "q"),
      Event("platform_change", 800, "", "Booking.com"),
      Event("platform_change", 900, "Booking.com", "Airbnb"),
      Event("closure", 700, "Open", "Closed"),
      Event("opening", 800, "Closed", "Open"),
      Event("address_change", 950, "x", "y") }

\* the places an analysis is asked about: the position of the first hotel,
\* and a place that could not be resolved
Locations == { Some(<< Num(30), Num(46) >>), NoVal }

Radii == { 500 }

\* TemporalAnalysis.analyze_location_changes(location, radius)
AnalyzeLocationChanges(coordinates, radius) ==
    /\ NotAnalysed
    /\ location_analysis = NoVal
    /\ location_analysis' = Some(AnalyzeLocationChangesOf(coordinates, radius))
    /\ UNCHANGED <<history_read, deleted, cluster_criteria, geo_clusters,
                   density_clusters, serviceVars>>
    /\ UNCHANGED <<dedupVars, bookingVars, patternVars, scraperVars, dbVars,
                   clusters, storeVars, riskVars>>

(***************************************************************************)
(* DataDiscovery.update_hotel_data and Database.delete_hotel               *)
(***************************************************************************)
\* the columns of the hotels table an update may name, in the order of the
\* table
Columns ==
    << "name", "address", "latitude", "longitude", "phone", "email", "website",
       "stars", "facilities", "legal_status", "last_updated" >>

\* f"{key}_change"
ChangeType(key) ==
    CASE key = "name" -> "name_change"
      [] key = "address" -> "address_change"
      [] key = "latitude" -> "latitude_change"
      [] key = "longitude" -> "longitude_change"
      [] key = "phone" -> "phone_change"
      [] key = "email" -> "email_change"
      [] key = "website" -> "website_change"
      [] key = "stars" -> "stars_change"
      [] key = "facilities" -> "facilities_change"
      [] key = "legal_status" -> "legal_status_change"
      [] key = "last_updated" -> "last_updated_change"

\* the keys of hotel_data whose value differs from the one on the record, in
\* the order of hotel_data (here the order of the table)
ChangedKeys(existing_hotel, hotel_data) ==
    SelectSeq(Columns,
        LAMBDA key : /\ key \in DOMAIN hotel_data
                     /\ key \in DOMAIN existing_hotel
                     /\ existing_hotel[key] # hotel_data[key])

\* the rows record_hotel_history is called with, one for each changed key;
\* the database dates an event it is given no date for with the day of the
\* call
RecordedChanges(hotel_id, existing_hotel, hotel_data) ==
    LET keys == ChangedKeys(existing_hotel, hotel_data)
    IN  [k \in 1..Len(keys) |->
            [hotel_id |-> hotel_id,
             event |-> [event_type |-> ChangeType(keys[k]),
                        event_date |-> Today,
                        old_value |-> existing_hotel[keys[k]],
                        new_value |-> hotel_data[keys[k]],
                        source |-> "auto_update"]]]

\* a delete that also removes the history of the hotel
HistoryAfterDeleteCascade(hotel_id) ==
    SelectSeq(hotel_history, LAMBDA r : r.hotel_id # hotel_id)

\* the history table after delete_hotel: its one statement is
\* DELETE FROM hotels WHERE id = ?
HistoryAfterDelete(hotel_id) == hotel_history

MaxLogged == 1

MaxLogEvents == 3

\* the updates one row takes
MaxStamp == 2

\* a hotel as the table keeps it
LogListings ==
    { [name |-> <<"a">>, address |-> <<"x">>, latitude |-> Num(30),
       longitude |-> Num(46), legal_status |-> "Hotel", last_updated |-> 0] }

LogEvents == { Event("ownership_change", 900, "o", "p") }

\* a new name, and a new classification with a new address
LogUpdates ==
    { [name |-> <<"c">>],
      [legal_status |-> "Private villa", address |-> <<"y">>] }

\* DataDiscovery.update_hotel_data(hotel_id, hotel_data) on a hotel of the
\* table: the row takes the new values and each changed key is recorded
\* what Database.update_hotel returns: on sqlite whether the UPDATE found
\* the row; on csv and excel False, as the file has no id column
UpdateHotelSucceeds(hotel_id) ==
    /\ db_type = "sqlite"
    /\ hotel_id \in 1..Len(hotels)
    /\ hotel_id \notin deleted

UpdateHotelData(hotel_id, hotel_data) ==
    /\ hotel_id # 0
    /\ GetHotelById(hotel_id) # NoVal
    /\ LET existing_hotel == Val(GetHotelById(hotel_id))
           stamped == Stamped(existing_hotel) @@ hotel_data
           recorded == RecordedChanges(hotel_id, existing_hotel, stamped)
       IN  /\ Len(hotel_history) + Len(recorded) <= MaxLogEvents
           /\ hotels' = IF UpdateHotelSucceeds(hotel_id)
                        THEN [hotels EXCEPT ![hotel_id] = stamped @@ @]
                        ELSE hotels
           /\ hotel_history' = hotel_history \o recorded
    /\ UNCHANGED <<db_type, clusters>>
    /\ UNCHANGED <<settings, hotel_listings, query_criteria, violations,
                   high_risk_hotels, history_analysis>>
    /\ UNCHANGED <<dedupVars, bookingVars, patternVars, scraperVars, storeVars,
                   auditVars, serviceVars>>

\* Database.delete_hotel(hotel_id) on sqlite
DeleteHotel(hotel_id) ==
    /\ hotel_id \in 1..Len(hotels)
    /\ hotel_id \notin deleted
    /\ deleted' = deleted \cup { hotel_id }
    /\ hotel_history' = HistoryAfterDelete(hotel_id)
    /\ UNCHANGED <<db_type, hotels, clusters>>
    /\ UNCHANGED <<settings, hotel_listings, query_criteria, violations,
                   high_risk_hotels, history_analysis>>
    /\ UNCHANGED <<history_read, location_analysis, cluster_criteria, geo_clusters,
                   density_clusters, serviceVars>>
    /\ UNCHANGED <<dedupVars, bookingVars, patternVars, scraperVars, storeVars>>

(***************************************************************************)
(* PatternDiscovery.detect_geographic_clusters and                         *)
(* GoogleMapsAnalyzer.cluster_locations_by_density. Distances are in       *)
(* metres: max_distance 200 is the default 0.2 km, eps 100 the default     *)
(* 0.1 km.                                                                 *)
(***************************************************************************)
\* the radius of the earth in kilometres, and the kilometres
\* detect_geographic_clusters takes for one degree
EarthRadiusKm == 6371

KmPerDegree == 111

\* the properties within eps = max_distance / 111 of each property, where
\* the haversine metric on radians is the angle between the two
NearInRadians(valid_properties, max_distance) ==
    [i \in 1..Len(valid_properties) |->
        { j \in 1..Len(valid_properties) :
            HaversineMeters(valid_properties[i].latitude, valid_properties[i].longitude,
                            valid_properties[j].latitude, valid_properties[j].longitude)
              * KmPerDegree <= max_distance * EarthRadiusKm }]

\* PatternDiscovery.detect_geographic_clusters; a cluster is kept with its
\* id, its properties and their count
DetectGeographicClustersOf(props, max_distance, min_cluster_size) ==
    LET valid_properties == SelectSeq(props, HasCoords)
    IN  IF Len(valid_properties) < min_cluster_size
        THEN [error |-> "Not enough properties with valid coordinates"]
        ELSE
          LET found == DBSCAN(NearInRadians(valid_properties, max_distance),
                              min_cluster_size)
              labelled ==
                 [k \in 1..Len(found) |->
                    [cluster_id |-> k - 1,
                     properties |-> [m \in 1..Cardinality(found[k]) |->
                                        valid_properties[Ascending(found[k])[m]]],
                     property_count |-> Cardinality(found[k])]]
              noise == 1..Len(valid_properties) \ UNION { found[k] : k \in 1..Len(found) }
          IN  [status |-> "success",
               cluster_count |-> Len(found),
               clusters |-> SortDescending(labelled, LAMBDA c : c.property_count),
               noise_count |-> Cardinality(noise),
               total_properties |-> Len(valid_properties)]

\* the locations within eps of each location, by _haversine_distance
NearInKm(locations, eps) ==
    [i \in 1..Len(locations) |->
        { j \in 1..Len(locations) :
            HaversineMeters(Num(locations[i][1]), Num(locations[i][2]),
                            Num(locations[j][1]), Num(locations[j][2])) <= eps }]

\* GoogleMapsAnalyzer.cluster_locations_by_density; the center of a cluster
\* is the mean of its points
ClusterLocationsByDensityOf(locations, eps, min_samples) ==
    IF Len(locations) < min_samples THEN [clusters |-> << >>, noise |-> locations]
    ELSE
      LET found == DBSCAN(NearInKm(locations, eps), min_samples)
          noise == 1..Len(locations) \ UNION { found[k] : k \in 1..Len(found) }
          Points(S) == [m \in 1..Cardinality(S) |-> locations[Ascending(S)[m]]]
      IN  [clusters |->
              [k \in 1..Len(found) |->
                 [center |-> << Rat(SeqSum([m \in 1..Len(Points(found[k])) |->
                                              Points(found[k])[m][1]]),
                                    Cardinality(found[k])),
                                Rat(SeqSum([m \in 1..Len(Points(found[k])) |->
                                              Points(found[k])[m][2]]),
                                    Cardinality(found[k])) >>,
                  points |-> Points(found[k]),
                  count |-> Cardinality(found[k])]],
           noise |-> Points(noise),
           total_clusters |-> Len(found)]

\* the (latitude, longitude) tuples of the properties that have coordinates
LocationsOf(props) ==
    LET valid == SelectSeq(props, HasCoords)
    IN  [k \in 1..Len(valid) |-> << Val(valid[k].latitude), Val(valid[k].longitude) >>]

GeoLats == { 30, 60, 20000 }

\* properties near one another, one far away and one without coordinates
GeoListings ==
    { Prop(<<"a", "b">>, <<"x">>, Num(lat), Num(lng)) :
         lat \in GeoLats, lng \in Meridians }
      \cup { Prop(<<"a", "b">>, <<"x">>, NoVal, NoVal) }

\* the default max_distance and eps, with the default minimum size and 2
GeoCriteria == { << 200, 3 >>, << 200, 2 >> }

DensityCriteria == { << 100, 3 >>, << 100, 2 >> }

\* PatternDiscovery.detect_geographic_clusters(properties, max_distance,
\* min_cluster_size); the call is kept with its result
DetectGeographicClusters(max_distance, min_cluster_size) ==
    /\ ScraperIdle /\ DbIdle /\ ClusterIdle
    /\ geo_clusters = NoVal
    /\ geo_clusters' =
          Some([min_cluster_size |-> min_cluster_size,
                result |-> DetectGeographicClustersOf(properties, max_distance,
                                                      min_cluster_size)])
    /\ UNCHANGED <<history_read, location_analysis, deleted, cluster_criteria,
                   density_clusters, serviceVars>>
    /\ UNCHANGED <<dedupVars, bookingVars, patternVars, scraperVars, dbVars, clusters,
                   storeVars, riskVars>>

\* GoogleMapsAnalyzer.cluster_locations_by_density(locations, eps, min_samples)
\* on the locations of the properties
ClusterLocationsByDensity(eps, min_samples) ==
    /\ ScraperIdle /\ DbIdle /\ ClusterIdle
    /\ density_clusters = NoVal
    /\ density_clusters' =
          Some([min_samples |-> min_samples,
                locations |-> LocationsOf(properties),
                result |-> ClusterLocationsByDensityOf(LocationsOf(properties), eps,
                                                       min_samples)])
    /\ UNCHANGED <<history_read, location_analysis, deleted, cluster_criteria,
                   geo_clusters, serviceVars>>
    /\ UNCHANGED <<dedupVars, bookingVars, patternVars, scraperVars, dbVars, clusters,
                   storeVars, riskVars>>

MaxNearby == 5

NearbyLats == { 30, 70, 110, 150, 190 }

\* verified unnamed hotels 40 m apart on one meridian, and an unverified one
NearbyListings ==
    { Row(<< >>, Num(lat), Num(lng), "verified", << >>) :
         lat \in NearbyLats, lng \in Meridians }
      \cup { Row(<< >>, Num(70), Num(lng), "unverified", << >>) : lng \in Meridians }

\* the default criteria of detect_unusual_clusters
DefaultClusterCriteria ==
    [min_cluster_size |-> 3, max_distance_meters |-> 100, min_risk_score |-> 3]

(***************************************************************************)
(* _calculate_string_similarity of PatternDiscovery, SearchModule and      *)
(* BookingPlatformsDiscovery                                               *)
(***************************************************************************)
\* SearchModule._calculate_string_similarity
SearchStringSimilarity(str1, str2) ==
    LET s1      == Lower(str1)
        s2      == Lower(str2)
        max_len == Max(Len(s1), Len(s2))
    IN  IF max_len = 0 THEN Rat(1, 1)
        ELSE Rat(max_len - Levenshtein(s1, s2), max_len)

\* the method of the class
SimilarityOf(class, str1, str2) ==
    CASE class = "PatternDiscovery" -> StringSimilarity(str1, str2)
      [] class = "SearchModule" -> SearchStringSimilarity(str1, str2)
      [] class = "BookingPlatformsDiscovery" -> BookingStringSimilarity(str1, str2)

SimilarityClasses == { "PatternDiscovery", "SearchModule", "BookingPlatformsDiscovery" }

MaxCalls == 2

\* the empty string, a blank, strings equal but for case and blanks, a
\* substring of another and strings that are neither
SimilarityStrings ==
    { << >>, <<" ">>, <<"a">>, <<"A", "b">>, <<"b", "a">>, <<"a", "b", " ">> }

\* one call of _calculate_string_similarity, kept with its result
CalculateStringSimilarity(class, str1, str2) ==
    /\ Cardinality(similarities) < MaxCalls
    /\ similarities' = similarities \cup
          { [class |-> class, str1 |-> str1, str2 |-> str2,
             result |-> SimilarityOf(class, str1, str2)] }
    /\ UNCHANGED lookup
    /\ UNCHANGED searchVars
    /\ UNCHANGED lateVars
    /\ UNCHANGED <<dedupVars, bookingVars, patternVars, scraperVars, dbVars, clusters,
                   storeVars, riskVars, auditVars>>

\* the weighted scores of the attributes both hotels have
HotelScores(hotel1, hotel2) ==
    (IF hotel1.name # << >> /\ hotel2.name # << >>
       THEN << RMul(SearchStringSimilarity(hotel1.name, hotel2.name), Rat(3, 1)) >>
       ELSE << >>)
    \o (IF hotel1.address # << >> /\ hotel2.address # << >>
          THEN << RMul(SearchStringSimilarity(hotel1.address, hotel2.address), Rat(2, 1)) >>
          ELSE << >>)
    \o (IF Truthy(hotel1.latitude) /\ Truthy(hotel1.longitude)
             /\ Truthy(hotel2.latitude) /\ Truthy(hotel2.longitude)
          THEN LET distance == HaversineMeters(hotel1.latitude, hotel1.longitude,
                                               hotel2.latitude, hotel2.longitude)
                   location_similarity ==
                       IF distance >= 2000 THEN Rat(0, 1)
                       ELSE Rat(2000 - distance, 2000)
               IN  << RMul(location_similarity, Rat(2, 1)) >>
          ELSE << >>)
    \o (IF Truthy(hotel1.stars) /\ Truthy(hotel2.stars)
          THEN LET stars_diff == Abs(Val(hotel1.stars) - Val(hotel2.stars))
               IN  << IF stars_diff >= 5 THEN Rat(0, 1) ELSE Rat(5 - stars_diff, 5) >>
          ELSE << >>)
    \o (IF hotel1.price_range # << >> /\ hotel2.price_range # << >>
          THEN << IF hotel1.price_range = hotel2.price_range
                  THEN Rat(1, 1) ELSE Rat(1, 2) >>
          ELSE << >>)
    \o (IF hotel1.facilities # << >> /\ hotel2.facilities # << >>
          THEN << SearchStringSimilarity(hotel1.facilities, hotel2.facilities) >>
          ELSE << >>)

RECURSIVE RSum(_, _)
RSum(scores, k) ==
    IF k > Len(scores) THEN Rat(0, 1) ELSE RAdd(scores[k], RSum(scores, k + 1))

\* SearchModule._calculate_similarity: sum(scores) / len(scores)
HotelSimilarity(hotel1, hotel2) ==
    LET scores == HotelScores(hotel1, hotel2)
    IN  IF scores # << >> THEN RDiv(RSum(scores, 1), Rat(Len(scores), 1))
        ELSE Rat(0, 1)

\* a call of SearchModule._calculate_similarity(hotel1, hotel2)
CalculateSimilarity(hotel1, hotel2) ==
    /\ similarities = { }
    /\ similarities' = { [class |-> "SearchModule", hotel1 |-> hotel1, hotel2 |-> hotel2,
                          result |-> HotelSimilarity(hotel1, hotel2)] }
    /\ UNCHANGED lookup
    /\ UNCHANGED searchVars
    /\ UNCHANGED lateVars
    /\ UNCHANGED <<dedupVars, bookingVars, patternVars, scraperVars, dbVars, clusters,
                   storeVars, riskVars, auditVars>>

\* a call of PatternDiscovery._calculate_property_similarity(prop1, prop2)
CalculatePropertySimilarity(prop1, prop2) ==
    /\ similarities = { }
    /\ similarities' = { [class |-> "PatternDiscovery", hotel1 |-> prop1, hotel2 |-> prop2,
                          result |-> PropertySimilarity(prop1, prop2)] }
    /\ UNCHANGED lookup
    /\ UNCHANGED searchVars
    /\ UNCHANGED lateVars
    /\ UNCHANGED <<dedupVars, bookingVars, patternVars, scraperVars, dbVars, clusters,
                   storeVars, riskVars, auditVars>>

\* a hotel record with the attributes the two composite scores read
Attributes(name, address, latitude, stars, price_range, facilities, contact) ==
    [name |-> name, address |-> address, latitude |-> latitude,
     longitude |-> IF latitude = NoVal THEN NoVal ELSE Num(46),
     stars |-> stars, price_range |-> price_range, facilities |-> facilities,
     phone |-> contact, owner |-> contact]

\* hotels with and without a name, coordinates, stars and the other
\* attributes, equal, close or far in each
CompositeHotels ==
    { Attributes(name, other, latitude, stars, other, other, other) :
         name \in { << >>, <<"a">>, <<"b">> },
         latitude \in { NoVal, Num(30), Num(1030) },
         stars \in { NoVal, Num(1), Num(5) },
         other \in { << >>, <<"x">> } }

(***************************************************************************)
(* DataDiscovery.smart_discovery                                           *)
(***************************************************************************)
MaxPoints == 4

\* a location: the name of a place, or the string f"{lat},{lng}" of a pair
\* of coordinates
Place(name) == [text |-> name, lat |-> NoVal, lng |-> NoVal]

CoordStr(lat, lng) == [text |-> "", lat |-> lat, lng |-> lng]

\* DataDiscovery._is_duplicate_hotel(hotel, existing_hotels)
IsDuplicateHotel(hotel, existing_hotels) ==
    IF hotel.name = << >> \/ ~Truthy(hotel.latitude) \/ ~Truthy(hotel.longitude)
    THEN FALSE
    ELSE \E k \in 1..Len(existing_hotels) :
            \/ Lower(hotel.name) = Lower(existing_hotels[k].name)
            \/ /\ Truthy(existing_hotels[k].latitude)
               /\ Truthy(existing_hotels[k].longitude)
               /\ HaversineMeters(hotel.latitude, hotel.longitude,
                                  existing_hotels[k].latitude,
                                  existing_hotels[k].longitude) < 50

\* DataDiscovery._extract_search_points(hotels, existing_points)
RECURSIVE ExtractSearchPointsFrom(_, _, _, _)
ExtractSearchPointsFrom(hotel_list, k, existing_points, new_points) ==
    IF k > Len(hotel_list) THEN new_points
    ELSE LET lat == hotel_list[k].latitude
             lng == hotel_list[k].longitude
             coord_str == CoordStr(lat, lng)
             too_close ==
                 \E point \in existing_points :
                     /\ point.lat # NoVal
                     /\ HaversineMeters(lat, lng, point.lat, point.lng) < 1000
         IN  IF /\ Truthy(lat) /\ Truthy(lng)
                /\ coord_str \notin existing_points
                /\ \A j \in 1..Len(new_points) : new_points[j] # coord_str
                /\ ~too_close
             THEN ExtractSearchPointsFrom(hotel_list, k + 1, existing_points,
                                          Append(new_points, coord_str))
             ELSE ExtractSearchPointsFrom(hotel_list, k + 1, existing_points, new_points)

ExtractSearchPoints(hotel_list, existing_points) ==
    ExtractSearchPointsFrom(hotel_list, 1, existing_points, << >>)

\* the stop criteria smart_discovery takes when it is given none
DefaultStopCriteria == [max_hotels |-> 1000, max_time |-> 3600, coverage_percent |-> 90]

\* smart_discovery(start_location, max_radius, max_points, stop_criteria),
\* up to its loop
SmartDiscovery(start_location, max_radius, max_points, stop_criteria) ==
    /\ discovery = NoVal
    /\ discovery' = Some([all_hotels |-> << >>,
                          processed_locations |-> { },
                          search_points |-> << << start_location, Rat(1000, 1) >> >>,
                          max_radius |-> max_radius,
                          max_points |-> max_points,
                          stop_criteria |-> IF stop_criteria = NoVal
                                            THEN DefaultStopCriteria
                                            ELSE Val(stop_criteria),
                          searched |-> << >>,
                          done |-> FALSE])
    /\ UNCHANGED <<lookup, similarities, all_settings>>
    /\ UNCHANGED searchVars
    /\ UNCHANGED <<dedupVars, bookingVars, patternVars, scraperVars, dbVars,
                   clusters, storeVars, riskVars, auditVars>>

\* a loop that goes on with max_points locations processed
LoopGoesOnInclusive(locals) ==
    /\ locals.search_points # << >>
    /\ Cardinality(locals.processed_locations) <= locals.max_points

\* the loop goes on: there are search points left and fewer than max_points
\* locations have been processed
LoopGoesOn(locals) ==
    /\ locals.search_points # << >>
    /\ Cardinality(locals.processed_locations) < locals.max_points

\* the loop ends and smart_discovery returns all_hotels: its condition is
\* false, or the time is up, or enough hotels have been found
SmartDiscoveryReturn(time_is_up) ==
    /\ discovery # NoVal
    /\ ~Val(discovery).done
    /\ LET locals == Val(discovery)
       IN  /\ \/ ~LoopGoesOn(locals)
              \/ "max_time" \in DOMAIN locals.stop_criteria /\ time_is_up
              \/ /\ "max_hotels" \in DOMAIN locals.stop_criteria
                 /\ Len(locals.all_hotels) >= locals.stop_criteria.max_hotels
           /\ discovery' = Some([locals EXCEPT !.done = TRUE])
    /\ UNCHANGED <<lookup, similarities, all_settings>>
    /\ UNCHANGED searchVars
    /\ UNCHANGED <<dedupVars, bookingVars, patternVars, scraperVars, dbVars,
                   clusters, storeVars, riskVars, auditVars>>

\* the first point of new_points[:5], each with the radius grown by half
RECURSIVE WithRadius(_, _)
WithRadius(new_points, radius) ==
    IF new_points = << >> THEN << >>
    ELSE << << Head(new_points), radius >> >> \o WithRadius(Tail(new_points), radius)

\* the locals after the search at current_location has given the hotels
AfterSearch(locals, radius, found) ==
    LET new_hotels == SelectSeq(found,
                          LAMBDA h : ~IsDuplicateHotel(h, locals.all_hotels))
        grown == RMul(radius, Rat(3, 2))
        next_radius == IF RGt(grown, Rat(locals.max_radius, 1))
                       THEN Rat(locals.max_radius, 1) ELSE grown
        new_points == IF new_hotels # << >> /\ RGeq(Rat(locals.max_radius, 1), radius)
                      THEN ExtractSearchPoints(new_hotels, locals.processed_locations)
                      ELSE << >>
    IN  [locals EXCEPT
            !.all_hotels = @ \o new_hotels,
            !.search_points =
                @ \o WithRadius(SubSeq(new_points, 1, Min(5, Len(new_points))),
                                next_radius)]

\* one pass of the loop past the two stop tests: the next search point is
\* taken, skipped when its location has been processed, searched otherwise;
\* outcome is the list discover_by_location returns, or None when it raises
SmartDiscoveryPass(outcome) ==
    /\ discovery # NoVal
    /\ ~Val(discovery).done
    /\ LET locals == Val(discovery)
           current_location == Head(locals.search_points)[1]
           radius == Head(locals.search_points)[2]
           popped == [locals EXCEPT !.search_points = Tail(@)]
           marked == [popped EXCEPT
                         !.processed_locations = @ \cup { current_location },
                         !.searched = Append(@, current_location)]
       IN  /\ LoopGoesOn(locals)
           /\ ~ /\ "max_hotels" \in DOMAIN locals.stop_criteria
                /\ Len(locals.all_hotels) >= locals.stop_criteria.max_hotels
           /\ discovery' =
                 Some(IF current_location \in locals.processed_locations THEN popped
                      ELSE IF outcome = NoVal THEN marked
                      ELSE AfterSearch(marked, radius, Val(outcome)))
    /\ UNCHANGED <<lookup, similarities, all_settings>>
    /\ UNCHANGED searchVars
    /\ UNCHANGED <<dedupVars, bookingVars, patternVars, scraperVars, dbVars,
                   clusters, storeVars, riskVars, auditVars>>

\* hotels 1500 m apart on one meridian, two of them without a name
DiscoveryHotels ==
    << Hotel(<<"a">>, Num(1500), Num(46)), Hotel(<<"b">>, Num(3000), Num(46)),
       Hotel(<< >>, Num(3000), Num(46)), Hotel(<< >>, Num(4500), Num(46)),
       Hotel(<<"b">>, Num(3200), Num(46)) >>

\* what a search may give: it raises, or returns some of the hotels
Outcomes ==
    { NoVal, Some(<< >>), Some(DiscoveryHotels), Some(SubSeq(DiscoveryHotels, 1, 2)),
      Some(SubSeq(DiscoveryHotels, 3, 3)), Some(SubSeq(DiscoveryHotels, 4, 5)) }

StartLocations == { Place("Riyadh"), CoordStr(Num(1500), Num(46)) }

StopCriteria == { NoVal, Some([max_hotels |-> 2]), Some([max_time |-> 3600]) }

(***************************************************************************)
(* SettingsModule: settings and default_settings are dictionaries of       *)
(* dictionaries; a section of settings is either a dictionary of its own   *)
(* or the very dictionary default_settings holds for the section           *)
(***************************************************************************)
\* _get_default_settings(), for two of its sections and three of its keys
FactoryDefaults ==
    [violations |-> [min_risk_score |-> 3, high_risk_threshold |-> 7],
     search |-> [max_results |-> 100]]

SectionNames == DOMAIN FactoryDefaults

\* the value a dictionary has for a key after d[key] = value
SetItem(d, key, value) == (key :> value) @@ d

\* the sections of settings when settings is default_settings itself, or a
\* shallow copy of it: each is the default section
AllShared(default_settings) == [s \in DOMAIN default_settings |-> NoVal]

\* the section as settings holds it
Section(state, section) ==
    IF state.settings[section] = NoVal THEN state.default_settings[section]
    ELSE Val(state.settings[section])

\* self.settings, by value
Settings(state) == [s \in DOMAIN state.settings |-> Section(state, s)]

\* save_settings(): the file takes the settings, by value
Saved(state) == [state EXCEPT !.config_file = Some(Settings(state))]

\* SettingsModule(config_path): default_settings is built anew; settings is
\* read from the file, or is default_settings itself when there is no file
LoadSettings(config_file) ==
    IF config_file = NoVal
    THEN Saved([default_settings |-> FactoryDefaults,
                is_default |-> TRUE,
                settings |-> AllShared(FactoryDefaults),
                config_file |-> NoVal,
                last_reset |-> NoVal])
    ELSE [default_settings |-> FactoryDefaults,
          is_default |-> FALSE,
          settings |-> [s \in DOMAIN Val(config_file) |-> Some(Val(config_file)[s])],
          config_file |-> config_file,
          last_reset |-> NoVal]

\* a section that is missing is created: settings[section] = {}, which is
\* an entry of default_settings too when settings is default_settings
WithSection(state, section) ==
    IF section \in DOMAIN state.settings THEN state
    ELSE IF state.is_default
         THEN [state EXCEPT !.default_settings = SetItem(@, section, << >>),
                            !.settings = SetItem(@, section, NoVal)]
         ELSE [state EXCEPT !.settings = SetItem(@, section, Some(<< >>))]

\* settings[section].update(values), on the dictionary the section is
WithValues(state, section, values) ==
    IF state.settings[section] = NoVal
    THEN [state EXCEPT !.default_settings[section] = values @@ @]
    ELSE [state EXCEPT !.settings[section] = Some(values @@ Val(@))]

\* the state after set_setting(section, key, value)
AfterSetSetting(state, section, key, value) ==
    Saved([WithValues(WithSection(state, section), section, (key :> value))
              EXCEPT !.last_reset = NoVal])

\* the state after update_section(section, values)
AfterUpdateSection(state, section, values) ==
    Saved([WithValues(WithSection(state, section), section, values)
              EXCEPT !.last_reset = NoVal])

\* the state after reset_section(section): settings[section] becomes the
\* dictionary default_settings holds for the section, or a new empty one
AfterResetSection(state, section) ==
    Saved(IF section \in DOMAIN state.default_settings
          THEN [state EXCEPT !.settings = SetItem(@, section, NoVal),
                             !.last_reset = Some({ section })]
          ELSE IF state.is_default
               THEN [state EXCEPT !.default_settings = SetItem(@, section, << >>),
                                  !.settings = SetItem(@, section, NoVal),
                                  !.last_reset = Some({ section })]
               ELSE [state EXCEPT !.settings = SetItem(@, section, Some(<< >>)),
                                  !.last_reset = Some({ section })])

\* the state after reset_all_settings(): settings becomes a shallow copy of
\* default_settings
AfterResetAllSettings(state) ==
    Saved([state EXCEPT !.is_default = FALSE,
                        !.settings = AllShared(state.default_settings),
                        !.last_reset = Some(SectionNames)])

\* the settings module is built; the services do not change it
SettingsStep(after) ==
    /\ all_settings' = Some(after)
    /\ UNCHANGED <<lookup, similarities, discovery>>
    /\ UNCHANGED searchVars
    /\ UNCHANGED <<dedupVars, bookingVars, patternVars, scraperVars, dbVars,
                   clusters, storeVars, riskVars, auditVars>>

\* SettingsModule(config_path) on a directory without a file
NewSettingsModule ==
    /\ all_settings = NoVal
    /\ SettingsStep(LoadSettings(NoVal))

\* SettingsModule(config_path) again, on the file the last call saved
RestartSettingsModule ==
    /\ all_settings # NoVal
    /\ SettingsStep(LoadSettings(Val(all_settings).config_file))

\* set_setting(section, key, value)
SetSettingIn(section, key, value) ==
    /\ all_settings # NoVal
    /\ SettingsStep(AfterSetSetting(Val(all_settings), section, key, value))

\* update_section(section, values)
UpdateSection(section, values) ==
    /\ all_settings # NoVal
    /\ SettingsStep(AfterUpdateSection(Val(all_settings), section, values))

\* reset_section(section)
ResetSection(section) ==
    /\ all_settings # NoVal
    /\ SettingsStep(AfterResetSection(Val(all_settings), section))

\* reset_all_settings()
ResetAllSettings ==
    /\ all_settings # NoVal
    /\ SettingsStep(AfterResetAllSettings(Val(all_settings)))

\* the writes of the model: a key of a section and a value that is not its
\* default; the section custom has no defaults
SettingWrites ==
    { << "violations", "min_risk_score", 5 >>, << "violations", "high_risk_threshold", 9 >>,
      << "search", "max_results", 50 >>, << "custom", "max_results", 50 >> }

SectionUpdates ==
    { << "violations", [min_risk_score |-> 5, high_risk_threshold |-> 9] >>,
      << "search", [max_results |-> 100] >> }

(***************************************************************************)
(* Specifications: one per component, each from the state in which no      *)
(* component has run                                                       *)
(***************************************************************************)
\* no analysis of the later sections has run and no row has been deleted
AuditIdle ==
    /\ history_read = NoVal
    /\ location_analysis = NoVal
    /\ deleted = { }
    /\ cluster_criteria = NoVal
    /\ geo_clusters = NoVal
    /\ density_clusters = NoVal

ServiceIdle ==
    /\ lookup = NoVal
    /\ similarities = { }
    /\ search_history = << >>
    /\ last_search_results = << >>
    /\ searches = << >>
    /\ discovery = NoVal
    /\ all_settings = NoVal

InitAll ==
    /\ DedupIdle /\ BookingIdle /\ PatternIdle /\ ScraperIdle /\ DbIdle
    /\ ClusterIdle /\ StoreIdle /\ RiskIdle /\ AuditIdle /\ ServiceIdle

NextDedup ==
    \/ \E h \in DedupListings : Discover(h)
    \/ RemoveDuplicates

SpecDedup == InitAll /\ [][NextDedup]_vars

NextBooking ==
    \/ \E p \in BookingListings : SearchPlatform(p)
    \/ BookingRemoveDuplicates

SpecBooking == InitAll /\ [][NextBooking]_vars

NextGroups ==
    \/ \E p \in PatternListings : AddProperty(p)
    \/ FindPropertyGroups

SpecGroups == InitAll /\ [][NextGroups]_vars

NextScraper ==
    \/ \E h \in ScraperListings : SearchSource(h)
    \/ CompareAndEnrich

SpecScraper == InitAll /\ [][NextScraper]_vars

NextCluster ==
    \/ \E h \in ClusterListings : StoreHotel(h)
    \/ \E c \in ClusterCriteria : DetectUnusualClusters(c)

SpecCluster == InitAll /\ [][NextCluster]_vars

\* the three grouping analyses; a run exercises one of them, each on the
\* list it is given
NextGrouping == NextGroups \/ NextScraper \/ NextCluster

SpecGrouping == InitAll /\ [][NextGrouping]_vars

\* Database(db_type, db_path) on a new file, before any call
InitStore ==
    /\ DedupIdle /\ BookingIdle /\ PatternIdle /\ ScraperIdle /\ ClusterIdle
    /\ StoreIdle /\ RiskIdle /\ AuditIdle /\ ServiceIdle
    /\ db_type \in DbTypes
    /\ hotels = << >>

NextStore ==
    \/ \E w \in Workers : \E h \in StoreListings : SaveHotelSqlite(w, h)
    \/ \E w \in Workers : \E h \in StoreListings : CsvWriteRow(w, h)
    \/ \E w \in Workers : CsvCountRows(w)
    \/ \E w \in Workers : \E h \in StoreListings : ExcelRead(w, h)
    \/ \E w \in Workers : ExcelWrite(w)

SpecStore == InitStore /\ [][NextStore]_vars

\* one hotel with its history and platform listings, assessed once and its
\* score then written to its record
NextRisk ==
    \/ \E h \in RiskListings :
          NotAnalysed /\ Len(hotels) < MaxAssessed /\ StoreHotel(h)
    \/ \E id \in 1..MaxAssessed : \E e \in HistoryEvents : RecordHotelHistory(id, e)
    \/ \E id \in 1..MaxAssessed : \E o \in BOOLEAN : RecordHotelListing(id, o)
    \/ \E s \in SettingChanges : SetSetting(s[1], s[2])
    \/ \E c \in RiskCriteria : AnalyzePotentialViolations(c)
    \/ \E c \in RiskCriteria : ListHighRiskHotels(c)
    \/ \E id \in 0..(MaxAssessed + 1) : AnalyzeHotelHistory(id)
    \/ \E r \in AssessedScores : UpdateHotel(r[1], [risk_score |-> Num(r[2])])

SpecRisk == InitAll /\ [][NextRisk]_vars

\* the high-risk queries over a table of hotels
NextQuery ==
    \/ \E h \in RiskListings : NotAnalysed /\ StoreHotel(h)
    \/ \E c \in QueryCriteria : AnalyzePotentialViolations(c)
    \/ \E c \in ListingCriteria : ListHighRiskHotels(c)

SpecQuery == InitAll /\ [][NextQuery]_vars

\* the hotels of one area with their history, then one temporal analysis
NextTemporal ==
    \/ \E h \in TemporalListings :
          NotAnalysed /\ location_analysis = NoVal /\ Len(hotels) < MaxArea
              /\ StoreHotel(h)
    \/ \E id \in 1..MaxArea : \E e \in TemporalEvents :
          location_analysis = NoVal /\ RecordHotelHistory(id, e)
    \/ \E id \in 0..(MaxArea + 1) :
          location_analysis = NoVal /\ AnalyzeHotelHistory(id)
    \/ \E l \in Locations : \E r \in Radii : AnalyzeLocationChanges(l, r)

SpecTemporal == InitAll /\ [][NextTemporal]_vars

\* the updates the row of the hotel has taken
Updates(hotel_id) ==
    IF hotel_id \in 1..Len(hotels) THEN hotels[hotel_id].last_updated ELSE 0

\* a hotel and its history log under updates, deletion and analyses
NextLog ==
    \/ \E h \in LogListings : Len(hotels) < MaxLogged /\ StoreHotel(h)
    \/ \E id \in 1..MaxLogged : \E e \in LogEvents :
          Len(hotel_history) < MaxLogEvents /\ RecordHotelHistory(id, e)
    \/ \E id \in 0..MaxLogged : \E d \in LogUpdates :
          Updates(id) < MaxStamp /\ UpdateHotelData(id, d)
    \/ \E id \in 1..MaxLogged : \E d \in LogUpdates :
          Updates(id) < MaxStamp /\ UpdateHotel(id, d)
    \/ \E id \in 1..MaxLogged : DeleteHotel(id)
    \/ \E id \in 0..(MaxLogged + 1) : AnalyzeHotelHistory(id)
    \/ \E l \in Locations : \E r \in Radii : AnalyzeLocationChanges(l, r)

SpecLog == InitAll /\ [][NextLog]_vars

\* the three clusterings: the two over a list of properties, and the one
\* over the hotels of the database
NextDensity ==
    \/ \E p \in GeoListings :
          geo_clusters = NoVal /\ density_clusters = NoVal /\ AddProperty(p)
    \/ \E c \in GeoCriteria : DetectGeographicClusters(c[1], c[2])
    \/ \E c \in DensityCriteria : ClusterLocationsByDensity(c[1], c[2])
    \/ \E h \in NearbyListings :
          geo_clusters = NoVal /\ density_clusters = NoVal /\ StoreHotelUpTo(h, MaxNearby)
    \/ DetectUnusualClusters(DefaultClusterCriteria)

SpecDensity == InitAll /\ [][NextDensity]_vars

\* nothing has been looked up or analysed
NotLookedUp == lookup = NoVal /\ history_analysis = NoVal

\* hotels saved on one of the three backends, then looked up by id and
\* analysed by id
NextLookup ==
    \/ \E h \in StoreListings : NotLookedUp /\ SaveHotelSqlite(1, h)
    \/ \E h \in StoreListings : NotLookedUp /\ CsvWriteRow(1, h)
    \/ CsvCountRows(1)
    \/ \E h \in StoreListings : NotLookedUp /\ ExcelRead(1, h)
    \/ ExcelWrite(1)
    \/ \E id \in 0..(MaxListings + 1) : pc[1] = "idle" /\ LookUpHotel(id)
    \/ \E id \in 0..(MaxListings + 1) : pc[1] = "idle" /\ AnalyzeHotelHistory(id)

SpecLookup == InitStore /\ [][NextLookup]_vars

\* calls of the three string similarities on pairs of strings
NextSimilarity ==
    \/ \E a, b \in SimilarityStrings : CalculateStringSimilarity("PatternDiscovery", a, b)
    \/ \E a, b \in SimilarityStrings : CalculateStringSimilarity("SearchModule", a, b)
    \/ \E a, b \in SimilarityStrings :
          CalculateStringSimilarity("BookingPlatformsDiscovery", a, b)

SpecSimilarity == InitAll /\ [][NextSimilarity]_vars

(***************************************************************************)
(* SearchModule                                                            *)
(***************************************************************************)
MaxSearches == 2

\* SQL LIKE '%name%': name occurs in the column, whatever the case of the
\* letters
Like(column, name) ==
    \E i \in 1..(Len(column) - Len(name) + 1) :
        SubSeq(Lower(column), i, i + Len(name) - 1) = Lower(name)

\* Database.search_hotels({'name': name}) or ({'name': '%name%'}) for a name
\* that is not empty
SearchHotelsByName(name, exact_match) ==
    SelectSeq(GetAllHotels,
              LAMBDA h : IF exact_match THEN h.name = name ELSE Like(h.name, name))

\* list.sort(key) on a list of << key, item >> pairs with rational keys:
\* stable, smaller keys first
RECURSIVE InsertAscending(_, _)
InsertAscending(sorted, x) ==
    IF sorted = << >> THEN << x >>
    ELSE IF RGt(Head(sorted)[1], x[1])
         THEN << x >> \o sorted
         ELSE << Head(sorted) >> \o InsertAscending(Tail(sorted), x)

RECURSIVE SortAscendingKeyed(_, _)
SortAscendingKeyed(keyed, k) ==
    IF k = 0 THEN << >>
    ELSE InsertAscending(SortAscendingKeyed(keyed, k - 1), keyed[k])

SortAscending(list, Key(_)) ==
    LET sorted == SortAscendingKeyed(
                      [k \in 1..Len(list) |-> << Key(list[k]), list[k] >>], Len(list))
    IN  [k \in 1..Len(sorted) |-> sorted[k][2]]

\* what every search operation does with its results before it hands
\* them back: it keeps them and adds an entry to the history
Searched(operation, criteria, found) ==
    /\ last_search_results' = found
    /\ search_history' = Append(search_history,
                                [criteria |-> criteria, result_count |-> Len(found)])
    /\ searches' = Append(searches, [operation |-> operation, criteria |-> criteria,
                                     results |-> found])

\* a search operation that gives back [] at once
GaveUp(operation, criteria) ==
    /\ searches' = Append(searches, [operation |-> operation, criteria |-> criteria,
                                     results |-> << >>])
    /\ UNCHANGED <<search_history, last_search_results>>

\* SearchModule.search_by_name(name, exact_match)
SearchByName(name, exact_match) ==
    /\ Len(searches) < MaxSearches
    /\ LET criteria == [name |-> name, exact_match |-> exact_match]
       IN  IF name = << >>
           THEN GaveUp("search_by_name", criteria)
           ELSE Searched("search_by_name", criteria,
                         SearchHotelsByName(name, exact_match))
    /\ UNCHANGED <<lookup, similarities>>
    /\ UNCHANGED lateVars
    /\ UNCHANGED <<dedupVars, bookingVars, patternVars, scraperVars, dbVars,
                   clusters, storeVars, riskVars, auditVars>>

\* the hotels within radius metres of the coordinates, nearest first, each
\* with its distance
NearbyHotels(coordinates, radius) ==
    LET located == SelectSeq(GetAllHotels,
                       LAMBDA h : Truthy(h.latitude) /\ Truthy(h.longitude))
        Distance(h) == HaversineMeters(coordinates[1], coordinates[2],
                                       h.latitude, h.longitude)
        within == SelectSeq(located, LAMBDA h : Distance(h) <= radius)
        found == [k \in 1..Len(within) |->
                       ("distance" :> Distance(within[k])) @@ within[k]]
    IN  SortAscending(found, LAMBDA h : Rat(h.distance, 1))

\* SearchModule.search_nearby(location, radius); location is a pair of
\* coordinates, or the name of a place that cannot be geocoded (NoVal)
SearchNearby(location, radius) ==
    /\ Len(searches) < MaxSearches
    /\ LET criteria == [location |-> location, radius |-> radius]
       IN  IF location = NoVal
           THEN GaveUp("search_nearby", criteria)
           ELSE Searched("search_nearby", criteria, NearbyHotels(location, radius))
    /\ UNCHANGED <<lookup, similarities>>
    /\ UNCHANGED lateVars
    /\ UNCHANGED <<dedupVars, bookingVars, patternVars, scraperVars, dbVars,
                   clusters, storeVars, riskVars, auditVars>>

\* the default of min_data_threshold
DefaultDataThreshold == Rat(3, 10)

\* the hotels that have less than min_data_threshold of the fields, the
\* emptiest first, each with its data_percentage and its missing_fields
SparseHotels(min_data_threshold, missing_fields) ==
    LET total_fields == Len(missing_fields)
        Completed(hotel) ==
            Len(SelectSeq(missing_fields, LAMBDA f : ~Missing(hotel, f)))
        Percentage(hotel) ==
            IF total_fields > 0 THEN Rat(Completed(hotel), total_fields) ELSE Rat(1, 1)
        below == SelectSeq(GetAllHotels,
                     LAMBDA h : RGt(min_data_threshold, Percentage(h)))
        found == [k \in 1..Len(below) |->
                       ("data_percentage" :> Percentage(below[k])
                          @@ "missing_fields" :>
                               SelectSeq(missing_fields, LAMBDA f : Missing(below[k], f)))
                         @@ below[k]]
    IN  SortAscending(found, LAMBDA h : h.data_percentage)

\* SearchModule.search_sparse_info(min_data_threshold, missing_fields)
SearchSparseInfo(min_data_threshold, given_fields) ==
    /\ Len(searches) < MaxSearches
    /\ LET missing_fields ==
               IF given_fields = NoVal THEN EssentialFields ELSE Val(given_fields)
       IN  Searched("search_sparse_info",
                    [min_data_threshold |-> min_data_threshold,
                     missing_fields |-> missing_fields],
                    SparseHotels(min_data_threshold, missing_fields))
    /\ UNCHANGED <<lookup, similarities>>
    /\ UNCHANGED lateVars
    /\ UNCHANGED <<dedupVars, bookingVars, patternVars, scraperVars, dbVars,
                   clusters, storeVars, riskVars, auditVars>>

\* hotels with and without a name, an address and coordinates
SearchListings ==
    { Listed({ "name" }, NoVal, { }, NoVal, "verified", NoVal),
      Listed({ "name", "address" }, Num(3), { }, Num(30), "verified", NoVal),
      Listed(ContactFields, Num(3), { }, Num(70), "verified", NoVal),
      Listed({ "phone" }, NoVal, { }, Num(600), "verified", NoVal) }

SearchNames == { << >>, <<"a">>, <<"A">>, <<"b">> }

SearchLocations == { NoVal, << Num(30), Num(46) >>, << Num(1000), Num(46) >> }

SearchRadii == { 50, 500 }

DataThresholds == { DefaultDataThreshold, Rat(1, 10) }

FieldLists == { NoVal, Some(<<"phone", "email">>), Some(<< >>) }

\* hotels are stored, then searched
NextSearch ==
    \/ \E h \in SearchListings :
          searches = << >> /\ StoreHotelUpTo(h, MaxAssessed + 1)
    \/ \E name \in SearchNames, exact_match \in BOOLEAN :
          SearchByName(name, exact_match)
    \/ \E location \in SearchLocations, radius \in SearchRadii :
          SearchNearby(location, radius)
    \/ \E threshold \in DataThresholds, fields \in FieldLists :
          SearchSparseInfo(threshold, fields)

SpecSearch == InitAll /\ [][NextSearch]_vars

\* two hotels that differ in their names
UpdateListings ==
    LogListings \cup { [h EXCEPT !.name = <<"b">>] : h \in LogListings }

\* hotels saved on one of the three backends, then updated by id
NextUpdate ==
    \/ \E h \in UpdateListings :
          hotel_history = << >> /\ Len(hotels) < MaxLogged + 1 /\ SaveHotelSqlite(1, h)
    \/ \E h \in UpdateListings :
          hotel_history = << >> /\ Len(hotels) < MaxLogged + 1 /\ CsvWriteRow(1, h)
    \/ CsvCountRows(1)
    \/ \E h \in UpdateListings :
          hotel_history = << >> /\ Len(hotels) < MaxLogged + 1 /\ ExcelRead(1, h)
    \/ ExcelWrite(1)
    \/ \E id \in 0..(MaxLogged + 2) : \E d \in LogUpdates :
          pc[1] = "idle" /\ Updates(id) < MaxStamp /\ UpdateHotelData(id, d)

SpecUpdate == InitStore /\ [][NextUpdate]_vars

\* one call of smart_discovery, whatever its searches give
NextDiscovery ==
    \/ \E start_location \in StartLocations, max_radius \in { 500, 2000 },
          max_points \in 0..MaxPoints, stop_criteria \in StopCriteria :
          SmartDiscovery(start_location, max_radius, max_points, stop_criteria)
    \/ \E time_is_up \in BOOLEAN : SmartDiscoveryReturn(time_is_up)
    \/ \E outcome \in Outcomes : SmartDiscoveryPass(outcome)

SpecDiscovery == InitAll /\ [][NextDiscovery]_vars

\* the call goes on as long as it can
SpecDiscoveryFair == SpecDiscovery /\ WF_vars(NextDiscovery)

\* a settings module under writes, resets and restarts
NextSettings ==
    \/ NewSettingsModule
    \/ RestartSettingsModule
    \/ \E w \in SettingWrites : SetSettingIn(w[1], w[2], w[3])
    \/ \E u \in SectionUpdates : UpdateSection(u[1], u[2])
    \/ \E section \in SectionNames \cup { "custom" } : ResetSection(section)
    \/ ResetAllSettings

SpecSettings == InitAll /\ [][NextSettings]_vars

\* one call of one of the two composite scores on a pair of hotels
NextComposite ==
    \/ \E hotel1, hotel2 \in CompositeHotels : CalculateSimilarity(hotel1, hotel2)
    \/ \E prop1, prop2 \in CompositeHotels : CalculatePropertySimilarity(prop1, prop2)

SpecComposite == InitAll /\ [][NextComposite]_vars

\* verified hotels with every subset of the contact fields, with no stars,
\* 0 stars or 3 stars
SparseListings ==
    { Listed(present, stars, { }, NoVal, "verified", NoVal) :
         present \in SUBSET ContactFields, stars \in { NoVal, Num(0), Num(3) } }

\* hotels with more or fewer of the essential fields, assessed
NextSparse ==
    \/ \E h \in SparseListings :
          /\ NotAnalysed /\ searches = << >>
          /\ Len(hotels) < MaxAssessed /\ StoreHotel(h)
    \/ \E c \in RiskCriteria : searches = << >> /\ AnalyzePotentialViolations(c)
    \/ \E threshold \in DataThresholds :
          NotAnalysed /\ searches = << >> /\ SearchSparseInfo(threshold, NoVal)

SpecSparse == InitAll /\ [][NextSparse]_vars

(***************************************************************************)
(* Permutations of an input list                                           *)
(***************************************************************************)
Perms(n) == { p \in [1..n -> 1..n] : \A i, j \in 1..n : p[i] = p[j] => i = j }

Permute(s, p) == [i \in 1..Len(s) |-> s[p[i]]]

\* C1: resolving the same listings in any input order yields the same
\* number of resulting entities as the order in which they were gathered.
C1_OrderIndependent ==
    deduped =>
        \A p \in Perms(Len(results)) :
            Len(RemoveDuplicatesOf(Permute(results, p))) = Len(unique)

\* the pairs find_property_groups compared and found similar, both ways
MatchedPairs ==
    LET edges == SimilarityEdges(properties, SimilarityThreshold)
    IN  edges \cup { << e[2], e[1] >> : e \in edges }

InOneGroup(S) ==
    \E k \in 1..Len(property_groups.groups) :
        S \subseteq property_groups.groups[k].properties

\* C2: matching is closed transitively: when A matches B and B matches C,
\* then A, B and C are in one group, also when A and C alone do not match.
C2_TransitiveGroups ==
    property_groups # NoVal =>
        LET m == MatchedPairs
        IN  \A ab \in m : \A bc \in m :
                (ab[2] = bc[1] /\ ab[1] # bc[2])
                    => InOneGroup({ab[1], ab[2], bc[2]})

\* C2 witness: a chain A ~ B ~ C whose ends do not match has been grouped
C2_Witness ==
    /\ property_groups # NoVal
    /\ LET m == MatchedPairs
       IN  \E ab \in m : \E bc \in m :
               /\ ab[2] = bc[1] /\ ab[1] # bc[2]
               /\ << ab[1], bc[2] >> \notin m
               /\ InOneGroup({ab[1], ab[2], bc[2]})

\* the listings of a group given as a sequence of indices
Members(group) == { group[k] : k \in 1..Len(group) }

\* a sequence of sets is a family of non-empty, pairwise disjoint sets
DisjointNonEmpty(sets) ==
    /\ \A k \in 1..Len(sets) : sets[k] # {}
    /\ \A k, m \in 1..Len(sets) : k # m => sets[k] \cap sets[m] = {}

\* a sequence of index sequences lists no index twice
NoRepeats(groups) ==
    \A k \in 1..Len(groups) : Cardinality(Members(groups[k])) = Len(groups[k])

\* C3: after any grouping run every listing belongs to at most one group
\* and every group produced contains at least one listing.
C3_Partition ==
    /\ property_groups # NoVal =>
          DisjointNonEmpty([k \in 1..Len(property_groups.groups) |->
                               property_groups.groups[k].properties])
    /\ enriched # NoVal =>
          /\ NoRepeats(enriched.groups)
          /\ DisjointNonEmpty([k \in 1..Len(enriched.groups) |->
                                   Members(enriched.groups[k])])
    /\ clusters # NoVal =>
          /\ NoRepeats([k \in 1..Len(Val(clusters)) |-> Val(clusters)[k].hotels])
          /\ DisjointNonEmpty([k \in 1..Len(Val(clusters)) |->
                                   Members(Val(clusters)[k].hotels)])

\* C3 witness: a run over a chain of results, the first within 50 m of the
\* second and the second of the third, produced two groups
C3_Witness ==
    /\ enriched # NoVal
    /\ Len(enriched.groups) >= 2
    /\ \E k \in 1..Len(enriched.groups) : Len(enriched.groups[k]) >= 2
    /\ \E a, b, c \in 1..Len(search_results) :
          /\ HasCoords(search_results[a]) /\ HasCoords(search_results[b])
          /\ HasCoords(search_results[c])
          /\ Val(search_results[b].latitude) - Val(search_results[a].latitude) < 50
          /\ Val(search_results[b].latitude) - Val(search_results[a].latitude) > 0
          /\ Val(search_results[c].latitude) - Val(search_results[b].latitude) < 50
          /\ Val(search_results[c].latitude) - Val(search_results[b].latitude) > 0

\* two listings name the same establishment
SameEstablishment(a, b) ==
    /\ Lower(a.name) = Lower(b.name)
    /\ a.latitude = b.latitude
    /\ a.longitude = b.longitude

\* C4: while two calls that ingest listings of the same establishment are
\* in progress together, the store never holds that establishment as two
\* separate rows.
C4_SerializedIngest ==
    \A v, w \in Workers :
        (/\ v # w
         /\ job[v] # NoVal /\ job[w] # NoVal
         /\ SameEstablishment(Val(job[v]), Val(job[w])))
            => Len(SelectSeq(hotels,
                       LAMBDA r : SameEstablishment(r, Val(job[v])))) <= 1

\* C5: two listings within 50 m of each other whose names are at least 0.8
\* similar are in one group, whatever their composite similarity.
C5_HardRule ==
    property_groups # NoVal =>
        \A a, b \in 1..Len(properties) :
            (/\ a < b
             /\ Truthy(properties[a].latitude) /\ Truthy(properties[a].longitude)
             /\ Truthy(properties[b].latitude) /\ Truthy(properties[b].longitude)
             /\ HaversineMeters(properties[a].latitude, properties[a].longitude,
                                properties[b].latitude, properties[b].longitude) <= 50
             /\ RGeq(StringSimilarity(properties[a].name, properties[b].name),
                     Rat(8, 10)))
                => InOneGroup({a, b})

\* C6: merging never reduces the number of tracked listings: every input
\* listing is kept in the result or recorded under the entry it was merged into.
C6_ProvenanceKept ==
    /\ deduped => TrackedListings(unique) = 1..Len(results)
    /\ booking_done => BookingTracked(unique_results) = 1..Len(all_results)

\* two lists of findings are the same, finding by finding
SameFindings(a, b) ==
    /\ Len(a) = Len(b)
    /\ \A k \in 1..Len(a) :
          /\ a[k].type = b[k].type
          /\ a[k].severity = b[k].severity
          /\ a[k].details = b[k].details

\* the record of an assessed hotel is as it was when assessed, but for the
\* score of the assessment written to it as risk_score
ScoreStored(assessed) ==
    LET now == GetAllHotels[assessed.id]
    IN  /\ \A f \in DOMAIN now \ { "risk_score" } : now[f] = assessed[f]
        /\ now.risk_score = Num(assessed.risk_analysis.risk_score)

\* C7: once the score of an assessment is stored on the hotel record as
\* risk_score, computing the assessment again yields the same score and the
\* same findings.
C7_Recomputable ==
    violations # NoVal =>
        \A k \in 1..Len(Val(violations)) :
            LET assessed == Val(violations)[k]
            IN  ScoreStored(assessed) =>
                    LET again == AnalyzeHotelRiskFactors(GetAllHotels[assessed.id])
                    IN  /\ again.risk_score = assessed.risk_analysis.risk_score
                        /\ SameFindings(again.risk_factors,
                                        assessed.risk_analysis.risk_factors)

\* +1 for a low, +2 for a medium and +3 for a high finding
Weight(severity) ==
    CASE severity = "low" -> 1
      [] severity = "medium" -> 2
      [] severity = "high" -> 3

RECURSIVE WeightedSumOf(_, _)
WeightedSumOf(findings, k) ==
    IF k > Len(findings) THEN 0
    ELSE Weight(findings[k].severity) + WeightedSumOf(findings, k + 1)

\* the risk analyses a list of hotels carries
RiskAnalysesOf(list) ==
    { list[k].risk_analysis :
         k \in { j \in 1..Len(list) : "risk_analysis" \in DOMAIN list[j] } }

\* the risk analyses the queries have returned
ReturnedRiskAnalyses ==
    (IF violations = NoVal THEN { } ELSE RiskAnalysesOf(Val(violations)))
      \cup (IF high_risk_hotels = NoVal THEN { }
            ELSE RiskAnalysesOf(Val(high_risk_hotels)))

\* analyze_hotel_history has returned an analysis, not an error
HistoryAnalysed ==
    history_analysis # NoVal /\ "risk_score" \in DOMAIN Val(history_analysis)

\* C8: every returned risk score is the sum over the returned findings of
\* +1 for each low, +2 for each medium and +3 for each high finding, and is
\* never negative.
C8_ScoreIsWeightedSum ==
    /\ \A ra \in ReturnedRiskAnalyses :
          /\ ra.risk_score = WeightedSumOf(ra.risk_factors, 1)
          /\ ra.risk_score >= 0
    /\ HistoryAnalysed =>
          /\ Val(history_analysis).risk_score =
                 WeightedSumOf(Val(history_analysis).suspicious_patterns, 1)
          /\ Val(history_analysis).risk_score >= 0

\* the severities of a list of findings
Severities(findings) == { findings[k].severity : k \in 1..Len(findings) }

\* C8 witness: an assessment with a low, a medium and a high finding has
\* been returned
C8_Witness ==
    \E ra \in ReturnedRiskAnalyses :
        /\ Severities(ra.risk_factors) = { "low", "medium", "high" }
        /\ ra.risk_score >= 6

\* the level the configured thresholds give a score
ConfiguredLevel(risk_score) ==
    IF risk_score >= settings.high_risk_threshold THEN "high"
    ELSE IF risk_score >= settings.medium_risk_threshold THEN "medium"
    ELSE "low"

\* C9: the level assigned to a score is the one the configured medium and
\* high thresholds imply.
C9_ConfiguredLevels ==
    /\ \A ra \in ReturnedRiskAnalyses :
          ra.risk_level = ConfiguredLevel(ra.risk_score)
    /\ HistoryAnalysed =>
          Val(history_analysis).risk_level =
              ConfiguredLevel(Val(history_analysis).risk_score)

\* the criteria of the last query, the defaults when none were given
EffectiveCriteria(default) ==
    IF query_criteria = NoVal THEN default ELSE Val(query_criteria)

\* result is the at most limit highest-scoring hotels among those whose
\* score is at least min_risk_score, highest first
IsTopK(result, score, min_risk_score, limit) ==
    LET eligible == { i \in 1..Len(hotels) : score[i] >= min_risk_score }
        listed == { result[k].id : k \in 1..Len(result) }
    IN  /\ Len(result) <= limit
        /\ Cardinality(listed) = Len(result)
        /\ listed \subseteq eligible
        /\ Len(result) = Min(limit, Cardinality(eligible))
        /\ \A k \in 1..(Len(result) - 1) :
              score[result[k].id] >= score[result[k + 1].id]
        /\ \A i \in eligible \ listed : \A j \in listed :
              score[i] <= score[j]

\* the score of each hotel as analyze_potential_violations computes it
ComputedScores ==
    [i \in 1..Len(hotels) |-> AnalyzeHotelRiskFactors(GetAllHotels[i]).risk_score]

\* the score of each hotel as list_high_risk_hotels takes it
ListedScores ==
    [i \in 1..Len(hotels) |->
        IF Truthy(hotels[i].risk_score) THEN Val(hotels[i].risk_score)
        ELSE ComputedScores[i]]

\* the last query was one that sorts by risk score
SortedByRiskScore ==
    EffectiveCriteria(DefaultHighRiskCriteria).sort_by = "risk_score"

\* C10: a high-risk query with minimum score m and limit k returns the at
\* most k highest-scoring hotels among those that score at least m, in
\* non-increasing order of score.
C10_TopK ==
    /\ violations # NoVal =>
          LET c == EffectiveCriteria(DefaultViolationCriteria)
          IN  IsTopK(Val(violations), ComputedScores, c.min_risk_score,
                     c.max_results)
    /\ (high_risk_hotels # NoVal /\ SortedByRiskScore) =>
          LET c == EffectiveCriteria(DefaultHighRiskCriteria)
          IN  IsTopK(Val(high_risk_hotels), ListedScores, c.min_risk_score,
                     c.max_results)

\* the number of hotels a limit allows: a limit of 0 is no limit
Allowed(max_results) ==
    IF max_results = 0 THEN Len(hotels) ELSE max_results

\* C10, amended: a high-risk query with minimum score m and limit k >= 1
\* returns the at most k highest-scoring hotels among those that score at
\* least m, in non-increasing order of score; with limit 0 it returns all of
\* those hotels, in that order.
C10_TopKOrAll ==
    /\ violations # NoVal =>
          LET c == EffectiveCriteria(DefaultViolationCriteria)
          IN  IsTopK(Val(violations), ComputedScores, c.min_risk_score,
                     Allowed(c.max_results))
    /\ (high_risk_hotels # NoVal /\ SortedByRiskScore) =>
          LET c == EffectiveCriteria(DefaultHighRiskCriteria)
          IN  IsTopK(Val(high_risk_hotels), ListedScores, c.min_risk_score,
                     Allowed(c.max_results))

\* C10 witness: a query with limit 2 returned two hotels of different
\* scores and left out a third that reaches the minimum score
C10_Witness ==
    /\ violations # NoVal /\ query_criteria # NoVal
    /\ Val(query_criteria).max_results = 2
    /\ Len(Val(violations)) = 2
    /\ ComputedScores[Val(violations)[1].id] > ComputedScores[Val(violations)[2].id]
    /\ \E i \in 1..Len(hotels) :
          /\ ComputedScores[i] >= Val(query_criteria).min_risk_score
          /\ \A k \in 1..2 : Val(violations)[k].id # i


(***************************************************************************)
(* The findings of the history analysis                                    *)
(***************************************************************************)
\* analyze_hotel_history has returned an analysis, not an error
HistoryReport ==
    /\ history_analysis # NoVal
    /\ "suspicious_patterns" \in DOMAIN Val(history_analysis)

\* the recorded events of the analysed hotel
AnalysedEvents == GetHotelHistory(Val(history_analysis).hotel_id, NoVal)

\* the findings of the given type in the returned analysis
Findings(type) ==
    SelectSeq(Val(history_analysis).suspicious_patterns, LAMBDA p : p.type = type)

\* a recorded change of classification
IsClassificationChange(e) ==
    EventTypeWords(e.event_type) \cap { "status", "classification" } # { }

\* from a hotel or commercial term to a residential or private term
IsClassificationDowngrade(e) ==
    /\ IsClassificationChange(e)
    /\ Mentions(e.old_value, "hotel") \/ Mentions(e.old_value, "commercial")
    /\ Mentions(e.new_value, "residential") \/ Mentions(e.new_value, "private")

\* C11: every recorded classification transition from a hotel or commercial
\* term to a residential or private term yields a high-severity downgrade
\* finding, and each such finding adds 3 to the risk score
C11_DowngradeFound ==
    HistoryReport =>
        LET downgrades == SelectSeq(AnalysedEvents, IsClassificationDowngrade)
            found == Findings("downgrade_to_residential")
        IN  /\ Len(found) = Len(downgrades)
            /\ \A k \in 1..Len(found) : found[k].severity = "high"
            /\ Val(history_analysis).risk_score >= 3 * Len(downgrades)

\* two of the changes fall within one window of 365 days
TwoWithinWindow(changes) ==
    \E i, j \in 1..Len(changes) :
        i # j /\ Abs(changes[i].event_date - changes[j].event_date) < 365

\* C12: an identity-churn finding is produced exactly when two name changes,
\* or two ownership changes, fall within one sliding window of 365 days
C12_ChurnWindow ==
    HistoryReport =>
        /\ Findings("frequent_name_changes") # << >>
              <=> TwoWithinWindow(SelectSeq(AnalysedEvents, IsNameChange))
        /\ Findings("frequent_ownership_changes") # << >>
              <=> TwoWithinWindow(SelectSeq(AnalysedEvents, IsOwnershipChange))

IsOfficialPlatform(value) ==
    \/ Mentions(value, "booking.com") \/ Mentions(value, "expedia")
    \/ Mentions(value, "tripadvisor")

IsPrivatePlatform(value) ==
    \/ Mentions(value, "airbnb") \/ Mentions(value, "private")
    \/ Mentions(value, "rental")

\* a platform change from an official listing to a private one
IsPlatformFlight(e) ==
    /\ IsListingChange(e)
    /\ IsOfficialPlatform(e.old_value)
    /\ IsPrivatePlatform(e.new_value)

\* C13: every platform change from an official platform to a private rental
\* platform yields a high-severity finding, also when it is the only event
C13_PlatformFlight ==
    HistoryReport =>
        LET flights == SelectSeq(AnalysedEvents, IsPlatformFlight)
            found == Findings("official_to_private_transition")
        IN  /\ Len(found) >= Len(flights)
            /\ \A k \in 1..Len(found) : found[k].severity = "high"

(***************************************************************************)
(* The findings of the location analysis                                   *)
(***************************************************************************)
\* analyze_location_changes has returned an analysis of a resolved place
LocationReport ==
    /\ location_analysis # NoVal
    /\ "patterns" \in DOMAIN Val(location_analysis)

\* the stored hotels within the radius of the analysed place
HotelsOfArea ==
    LET place == Val(location_analysis).location
    IN  { i \in 1..Len(hotels) :
            /\ i \notin deleted
            /\ hotels[i].latitude # NoVal /\ hotels[i].longitude # NoVal
            /\ HaversineMeters(place.latitude, place.longitude,
                               hotels[i].latitude, hotels[i].longitude)
                  <= place.radius }

\* the recorded events of a hotel that satisfy Is, within the time range
EventsOf(hotel_id, Is(_)) ==
    LET history == GetHotelHistory(hotel_id, NoVal)
    IN  { history[k] : k \in { n \in 1..Len(history) :
                                 /\ Is(history[n])
                                 /\ DefaultTimeRange[1] <= history[n].event_date
                                 /\ history[n].event_date <= DefaultTimeRange[2] } }

\* a closure of one hotel of the area and an opening of another within 180
\* days of each other
CoLocatedChurn ==
    \E i, j \in HotelsOfArea :
        /\ i # j
        /\ \E c \in EventsOf(i, IsClosure) : \E o \in EventsOf(j, IsOpening) :
              Abs(o.event_date - c.event_date) <= 180

\* C14: when two distinct hotels of the analysed area have a closure and an
\* opening within 180 days of each other, the location analysis reports a
\* co-located churn finding of medium severity
C14_CoLocatedChurn ==
    (LocationReport /\ CoLocatedChurn) =>
        \E k \in 1..Len(Val(location_analysis).patterns) :
            LET p == Val(location_analysis).patterns[k]
            IN  /\ p.type = "sequential_closure_opening"
                /\ "severity" \in DOMAIN p
                /\ p.severity = "medium"

TrackedFields == { "name", "address", "latitude", "longitude", "legal_status" }

\* the events the step has appended for the field of the hotel
AppendedFor(hotel_id, field) ==
    LET appended == SubSeq(hotel_history', Len(hotel_history) + 1, Len(hotel_history'))
    IN  SelectSeq(appended,
            LAMBDA r : /\ r.hotel_id = hotel_id
                       /\ r.event.event_type = ChangeType(field))

\* C16: whenever an update changes a tracked field of an existing hotel,
\* exactly one history event for that field is appended, with the previous
\* value, the new value, the event type and the source
C16_UpdateRecorded ==
    [][\A i \in 1..Len(hotels) : \A f \in TrackedFields \cap DOMAIN hotels[i] :
          hotels'[i][f] # hotels[i][f] =>
              /\ Len(AppendedFor(i, f)) = 1
              /\ AppendedFor(i, f)[1].event.old_value = hotels[i][f]
              /\ AppendedFor(i, f)[1].event.new_value = hotels'[i][f]
              /\ "source" \in DOMAIN AppendedFor(i, f)[1].event]_vars

ValidProperties == SelectSeq(properties, HasCoords)

HotelsWithCoords == { i \in 1..Len(hotels) : HasCoords(hotels[i]) }

\* C18: a clustering asked to cluster fewer points with valid coordinates
\* than the minimum cluster size returns a result with an empty cluster list
\* and no error
C18_DegenerateEmpty ==
    /\ (/\ geo_clusters # NoVal
        /\ Len(ValidProperties) < Val(geo_clusters).min_cluster_size)
          => /\ "error" \notin DOMAIN Val(geo_clusters).result
             /\ "clusters" \in DOMAIN Val(geo_clusters).result
             /\ Val(geo_clusters).result.clusters = << >>
    /\ (/\ density_clusters # NoVal
        /\ Len(Val(density_clusters).locations) < Val(density_clusters).min_samples)
          => /\ "error" \notin DOMAIN Val(density_clusters).result
             /\ "clusters" \in DOMAIN Val(density_clusters).result
             /\ Val(density_clusters).result.clusters = << >>
    /\ (/\ clusters # NoVal
        /\ Cardinality(HotelsWithCoords) < Val(cluster_criteria).min_cluster_size)
          => Val(clusters) = << >>

\* the hotels within the radius of each hotel, the hotel among them
WithinRadius ==
    [i \in 1..Len(hotels) |->
        IF ~HasCoords(hotels[i]) THEN { }
        ELSE { j \in HotelsWithCoords :
                 HaversineMeters(hotels[i].latitude, hotels[i].longitude,
                                 hotels[j].latitude, hotels[j].longitude)
                   <= Val(cluster_criteria).max_distance_meters }]

\* a core hotel has at least the minimum size of other hotels within the radius
CoreHotels ==
    { i \in HotelsWithCoords :
        Cardinality(WithinRadius[i] \ { i }) >= Val(cluster_criteria).min_cluster_size }

\* the hotels reached from the core hotel along chains of core hotels
ReachedFrom(core) == DensityReachable(WithinRadius, CoreHotels, { core })

\* the hotels of the k-th returned cluster
ClusterHotels(k) ==
    { Val(clusters)[k].hotels[m] : m \in 1..Len(Val(clusters)[k].hotels) }

InOneCluster(i, j) ==
    \E k \in 1..Len(Val(clusters)) : { i, j } \subseteq ClusterHotels(k)

\* the hotels with coordinates that are in no returned cluster
Unclustered ==
    HotelsWithCoords \ UNION { ClusterHotels(k) : k \in 1..Len(Val(clusters)) }

\* C19: the clusters are density-connected sets: a core hotel and every
\* hotel reached from it along chains of core hotels are in the same
\* cluster, and only hotels that no core hotel reaches are left unclustered
C19_DensityConnected ==
    clusters # NoVal =>
        /\ \A core \in CoreHotels : \A j \in ReachedFrom(core) : InOneCluster(core, j)
        /\ \A j \in Unclustered : \A core \in CoreHotels : j \notin ReachedFrom(core)

\* five hotels are stored, each within 80 m of every other
FiveWithin80 ==
    /\ Len(hotels) = 5
    /\ \A i, j \in 1..5 :
          /\ HasCoords(hotels[i])
          /\ HaversineMeters(hotels[i].latitude, hotels[i].longitude,
                             hotels[j].latitude, hotels[j].longitude) <= 80

\* C20: five hotels all within 80 m of one another, clustered with radius
\* 100 m and minimum cluster size 3, come back as exactly one cluster of 5
\* members, no hotel left out
C20_FiveInOneCluster ==
    (/\ clusters # NoVal
     /\ Val(cluster_criteria).max_distance_meters = 100
     /\ Val(cluster_criteria).min_cluster_size = 3
     /\ FiveWithin80)
       => /\ Len(Val(clusters)) = 1
          /\ Val(clusters)[1].hotel_count = 5
          /\ ClusterHotels(1) = 1..5

(***************************************************************************)
(* Lookups by id                                                           *)
(***************************************************************************)
\* the ids save_hotel has assigned
AssignedIds == 1..Len(hotels)

\* C21: looking up a hotel, or asking for its history analysis, with an id
\* that was never assigned gives None or an error result on every storage
\* backend, never the data of another hotel
C21_NotFound ==
    /\ (lookup # NoVal /\ Val(lookup).hotel_id \notin AssignedIds)
          => Val(lookup).result = NoVal
    /\ (history_analysis # NoVal /\ "error" \notin DOMAIN Val(history_analysis))
          => Val(history_analysis).hotel_id \in AssignedIds

(***************************************************************************)
(* Degenerate listings                                                     *)
(***************************************************************************)
\* the listings _remove_duplicates returns: unique_hotels.append(hotel)
\* appends the listing it was given
ReturnedListings == [k \in 1..Len(unique) |-> results[unique[k]]]

\* the listing has neither a name nor coordinates
Degenerate(hotel) ==
    hotel.name = << >> /\ hotel.latitude = NoVal /\ hotel.longitude = NoVal

\* C22: a listing lacking both a name and coordinates is never matched to
\* another listing: it is returned exactly once, as its own entity, and that
\* entity is flagged low_confidence
C22_UnresolvedSingleton ==
    deduped =>
        \A i \in 1..Len(results) :
            Degenerate(results[i]) =>
                /\ Cardinality({ k \in 1..Len(unique) : unique[k] = i }) = 1
                /\ \A k \in 1..Len(unique) :
                      unique[k] = i =>
                          /\ "low_confidence" \in DOMAIN ReturnedListings[k]
                          /\ ReturnedListings[k].low_confidence = TRUE

(***************************************************************************)
(* String similarity                                                       *)
(***************************************************************************)
\* the second call has the arguments of the first in the other order
Swapped(c, d) == c.class = d.class /\ c.str1 = d.str2 /\ c.str2 = d.str1

\* C23: string similarity is symmetric: a call with the arguments a, b and a
\* call of the same method with b, a return the same value, on the
\* empty-string, exact-match and substring paths too
C23_Symmetric ==
    \A c, d \in similarities : Swapped(c, d) => c.result = d.result

\* two strings, one inside the other, have been compared in both orders by
\* PatternDiscovery and the similarity is neither 0 nor 1
C23_Witness ==
    \E c, d \in similarities :
        /\ Swapped(c, d)
        /\ c.class = "PatternDiscovery"
        /\ c.str1 # c.str2
        /\ c.result \notin { Rat(0, 1), Rat(1, 1) }

(***************************************************************************)
(* Sparse data                                                             *)
(***************************************************************************)
\* the essential fields the record of the hotel lacks
MissingEssential(hotel) ==
    { k \in 1..Len(EssentialFields) : Missing(hotel, EssentialFields[k]) }

\* the severity the finding is to have for the number of missing fields
SparseSeverity(missing) ==
    IF missing >= 4 THEN "high" ELSE IF missing >= 2 THEN "medium" ELSE "low"

SparseFindings(risk_analysis) ==
    SelectSeq(risk_analysis.risk_factors, LAMBDA f : f.type = "sparse_data")

OtherFindings(risk_analysis) ==
    SelectSeq(risk_analysis.risk_factors, LAMBDA f : f.type # "sparse_data")

\* the hotels that have only their name among the essential fields
NameOnly == SelectSeq(GetAllHotels, LAMBDA h : MissingEssential(h) = 2..6)

\* C24: an assessed hotel has one sparse-data finding when it lacks an
\* essential field and none when it lacks none; the finding is high and adds
\* 3 to the score for 4 or more missing fields, medium and adds 2 for 2 or
\* 3, low and adds 1 for exactly 1; so a hotel with only its name has a high
\* finding, and search_sparse_info with its default threshold returns it
\* with the five fields it lacks
C24_SparseSeverity ==
    /\ \A c \in 1..Len(searches), n \in 1..Len(NameOnly) :
          (/\ searches[c].operation = "search_sparse_info"
           /\ searches[c].criteria.min_data_threshold = DefaultDataThreshold
           /\ searches[c].criteria.missing_fields = EssentialFields)
          => \E j \in 1..Len(searches[c].results) :
                /\ searches[c].results[j].id = NameOnly[n].id
                /\ searches[c].results[j].missing_fields = SubSeq(EssentialFields, 2, 6)
    /\ violations # NoVal =>
        \A k \in 1..Len(Val(violations)) :
            LET x       == Val(violations)[k]
                missing == Cardinality(MissingEssential(x))
                sparse  == SparseFindings(x.risk_analysis)
                others  == OtherFindings(x.risk_analysis)
            IN  IF missing = 0 THEN sparse = << >>
                ELSE /\ Len(sparse) = 1
                     /\ sparse[1].severity = SparseSeverity(missing)
                     /\ x.risk_analysis.risk_score =
                           (IF missing >= 4 THEN 3 ELSE IF missing >= 2 THEN 2 ELSE 1)
                             + SeqSum([j \in 1..Len(others) |->
                                          SeverityPoints(others[j].severity)])

\* a hotel with only its name has been assessed and has the high finding
C24_Witness ==
    /\ NameOnly # << >>
    /\ violations # NoVal
    /\ \E k \in 1..Len(Val(violations)) :
          /\ MissingEssential(Val(violations)[k]) = 2..6
          /\ Len(SparseFindings(Val(violations)[k].risk_analysis)) = 1
          /\ SparseFindings(Val(violations)[k].risk_analysis)[1].severity = "high"

\* a hotel with only its name has been searched for with the default
\* threshold
C24_Searched ==
    /\ NameOnly # << >>
    /\ \E c \in 1..Len(searches) :
          /\ searches[c].operation = "search_sparse_info"
          /\ searches[c].criteria.min_data_threshold = DefaultDataThreshold
          /\ searches[c].results # << >>

(***************************************************************************)
(* The history of searches                                                 *)
(***************************************************************************)
\* C29: every call of a search operation adds exactly one entry to
\* search_history, after the entries it had, and leaves in
\* last_search_results the list it gives back
C29_OneEntryPerSearch ==
    [][Len(searches') = Len(searches) + 1 =>
          /\ Len(search_history') = Len(search_history) + 1
          /\ SubSeq(search_history', 1, Len(search_history)) = search_history
          /\ last_search_results' = searches'[Len(searches')].results]_vars

(***************************************************************************)
(* The composite similarity of two hotels                                  *)
(***************************************************************************)
\* C25: the composite similarity of two hotels is at least 0 and at most 1,
\* whichever attributes the two have
C25_UnitInterval ==
    \A c \in similarities :
        "hotel1" \in DOMAIN c =>
            /\ RGeq(c.result, Rat(0, 1))
            /\ RGeq(Rat(1, 1), c.result)

(***************************************************************************)
(* Duplicates among the listings kept                                      *)
(***************************************************************************)
\* the listing has a name and coordinates
NamedAndLocated(hotel) ==
    hotel.name # << >> /\ hotel.latitude # NoVal /\ hotel.longitude # NoVal

\* C26: no two of the listings _remove_duplicates returns that both have a
\* name and coordinates have the same name up to the case of the letters or
\* lie less than 50 m apart
C26_NoDuplicateKept ==
    deduped =>
        \A i, j \in 1..Len(ReturnedListings) :
            (/\ i < j
             /\ NamedAndLocated(ReturnedListings[i])
             /\ NamedAndLocated(ReturnedListings[j]))
            => /\ Lower(ReturnedListings[i].name) # Lower(ReturnedListings[j].name)
               /\ HaversineMeters(ReturnedListings[i].latitude, ReturnedListings[i].longitude,
                                  ReturnedListings[j].latitude, ReturnedListings[j].longitude)
                     >= 50

(***************************************************************************)
(* Updates that fail                                                       *)
(***************************************************************************)
\* the events the step appends to the history
Appended == SubSeq(hotel_history', Len(hotel_history) + 1, Len(hotel_history'))

\* C27: an event update_hotel_data appends is about a change the database
\* took: after the step the row of the hotel holds the new value of the
\* event in the column the event is about
C27_OnlyPersisted ==
    [][\A k \in 1..Len(Appended) :
          Appended[k].event.source = "auto_update" =>
              /\ Appended[k].hotel_id \in 1..Len(hotels')
              /\ \E key \in DOMAIN hotels'[Appended[k].hotel_id] :
                    /\ Appended[k].event.event_type = ChangeType(key)
                    /\ hotels'[Appended[k].hotel_id][key] = Appended[k].event.new_value]_vars

(***************************************************************************)
(* smart_discovery                                                         *)
(***************************************************************************)
\* no more than max_points locations have been searched, and none twice
SearchedOnce ==
    discovery # NoVal =>
        /\ Len(Val(discovery).searched) <= Max(0, Val(discovery).max_points)
        /\ \A i, j \in 1..Len(Val(discovery).searched) :
              i # j => Val(discovery).searched[i] # Val(discovery).searched[j]

\* smart_discovery has returned
Returned == discovery # NoVal /\ Val(discovery).done

\* C28: a call of smart_discovery returns, and it never searches more than
\* max_points locations nor the same location twice, whatever the searches
\* give
C28_Terminates ==
    /\ (discovery # NoVal) ~> Returned
    /\ []SearchedOnce

\* a call has returned after max_points searches and after it skipped a
\* search point whose location it had processed
C28_Witness ==
    /\ Returned
    /\ Val(discovery).max_points = MaxPoints
    /\ Len(Val(discovery).searched) = MaxPoints
    /\ Val(discovery).search_points # << >>
    /\ Val(discovery).all_hotels # << >>

(***************************************************************************)
(* Resetting the settings                                                  *)
(***************************************************************************)
\* C30: after reset_section(s) every key of section s reads its factory
\* default, and after reset_all_settings every key of every section does,
\* whatever was written before: the defaults of the section are as
\* _get_default_settings gives them
C30_ResetRestoresDefaults ==
    (all_settings # NoVal /\ Val(all_settings).last_reset # NoVal) =>
        \A section \in Val(Val(all_settings).last_reset) \cap SectionNames :
            /\ section \in DOMAIN Val(all_settings).settings
            /\ Section(Val(all_settings), section) = FactoryDefaults[section]
            /\ Val(all_settings).default_settings[section] = FactoryDefaults[section]

====
